---------------------------- MODULE Spec2Model ----------------------------
(***************************************************************************)
(* News-Portal: the live aggregation engine (RSSNewsScraper) and the       *)
(* upsert persistence of ScraperService.                                   *)
(*                                                                         *)
(* Text is a sequence of one-character strings.  A JavaScript null or      *)
(* undefined text is the value Null; a missing url is NullUrl.  Time is    *)
(* counted in minutes.                                                     *)
(***************************************************************************)
EXTENDS Integers, Sequences, FiniteSets, TLC

(***************************************************************************)
(* Generic helpers                                                         *)
(***************************************************************************)
Null == <<"null">>

NullUrl == [origin |-> "null", path |-> "null"]

Min(a, b) == IF a <= b THEN a ELSE b

Max(a, b) == IF a >= b THEN a ELSE b

Range(s) == {s[i] : i \in 1..Len(s)}

\* !x of JavaScript for a text: null, undefined and "" are falsy
Falsy(t) == t = Null \/ t = <<>>

\* a || b of JavaScript for texts
OrElse(a, b) == IF Falsy(a) THEN b ELSE a

RECURSIVE Flat(_)
\* Array.prototype.flat on a sequence of sequences
Flat(ss) == IF ss = <<>> THEN <<>> ELSE Head(ss) \o Flat(Tail(ss))

\* s.filter(pred) where keep is the set of kept positions
RECURSIVE FilterIdx(_, _, _)
FilterIdx(s, keep, i) ==
    IF i > Len(s) THEN <<>>
    ELSE (IF i \in keep THEN <<s[i]>> ELSE <<>>) \o FilterIdx(s, keep, i + 1)

(***************************************************************************)
(* Text normaliser and matcher (RSSNewsScraper.js 116-172)                 *)
(***************************************************************************)
UpperChars == <<"A","B","C","D","E","F","G","H","I","J","K","L","M",
                "N","O","P","Q","R","S","T","U","V","W","X","Y","Z">>

LowerChars == <<"a","b","c","d","e","f","g","h","i","j","k","l","m",
                "n","o","p","q","r","s","t","u","v","w","x","y","z">>

DigitChars == <<"0","1","2","3","4","5","6","7","8","9">>

\* \w of a JavaScript regular expression without the u flag
WordChars == Range(UpperChars) \cup Range(LowerChars) \cup Range(DigitChars) \cup {"_"}

toLowerCase(t) ==
    [i \in 1..Len(t) |->
        IF t[i] \in Range(UpperChars)
        THEN LowerChars[CHOOSE k \in 1..Len(UpperChars) : UpperChars[k] = t[i]]
        ELSE t[i]]

RECURSIVE trimStart(_)
trimStart(t) == IF t # <<>> /\ Head(t) = " " THEN trimStart(Tail(t)) ELSE t

RECURSIVE trimEnd(_)
trimEnd(t) ==
    IF t # <<>> /\ t[Len(t)] = " " THEN trimEnd(SubSeq(t, 1, Len(t) - 1)) ELSE t

trim(t) == trimEnd(trimStart(t))

substring(t, from, to) == SubSeq(t, from + 1, Min(to, Len(t)))

normalizeText(text) == IF Falsy(text) THEN <<>> ELSE trim(toLowerCase(text))

\* String.prototype.includes
includes(t, p) ==
    \E s \in 1..(Len(t) - Len(p) + 1) : SubSeq(t, s, s + Len(p) - 1) = p

IsWordAt(t, i) == i \in 1..Len(t) /\ t[i] \in WordChars

\* \b between positions k and k+1 of t (k = 0 is the start, k = Len(t) the end)
Boundary(t, k) == IsWordAt(t, k) # IsWordAt(t, k + 1)

\* the synonym table, reduced to two of its entries
synonyms == <<
    [key |-> <<"d","o","l","a","r">>,
     values |-> << <<"u","s","d">>,
                   <<"a","m","e","r","i","k","a","n"," ","d","o","l","a","r","i">>,
                   <<"d","o","l","a","r","i","n">>,
                   <<"d","o","l","a","r","d","a">> >>],
    [key |-> <<"p","e","t","r","o","l">>,
     values |-> << <<"b","r","e","n","t">>, <<"v","a","r","i","l">> >>] >>

RECURSIVE Dedupe(_)
\* [...new Set(list)]: first occurrences, in order
Dedupe(s) ==
    IF s = <<>> THEN <<>>
    ELSE LET r == Dedupe(SubSeq(s, 1, Len(s) - 1))
         IN  IF s[Len(s)] \in Range(r) THEN r ELSE Append(r, s[Len(s)])

RECURSIVE SynonymsFrom(_, _)
SynonymsFrom(k, normalizedKeyword) ==
    IF k > Len(synonyms) THEN <<>>
    ELSE (IF synonyms[k].key = normalizedKeyword
             \/ normalizedKeyword \in Range(synonyms[k].values)
          THEN <<synonyms[k].key>> \o synonyms[k].values
          ELSE <<>>) \o SynonymsFrom(k + 1, normalizedKeyword)

getSynonyms(keyword) ==
    LET normalizedKeyword == normalizeText(keyword)
    IN  Dedupe(<<normalizedKeyword>> \o SynonymsFrom(1, normalizedKeyword))

suffixes == << <<>>, <<"i","n">>, <<"u","n">>, <<"a">>, <<"e">>, <<"i">>,
               <<"d","a">>, <<"d","e">>, <<"d","a","n">>, <<"d","e","n">>,
               <<"l","a">>, <<"l","e">>, <<"l","a","r">>, <<"l","e","r">> >>

\* new RegExp('\\b' + escapeRegex(pattern) + '\\b', 'i').test(t)
TestWord(t, pattern) ==
    \E s \in 1..(Len(t) - Len(pattern) + 1) :
        /\ SubSeq(t, s, s + Len(pattern) - 1) = pattern
        /\ Boundary(t, s - 1)
        /\ Boundary(t, s + Len(pattern) - 1)

\* a match anywhere in the text, inside a longer word too.  C23 is tested
\* against it.
matchesKeywordAnywhere(text, keyword) ==
    IF Falsy(text) \/ Falsy(keyword) THEN FALSE
    ELSE LET normalizedText == normalizeText(text)
             syns == getSynonyms(keyword)
         IN  \E i \in 1..Len(syns), j \in 1..Len(suffixes) :
                includes(normalizedText, syns[i] \o suffixes[j])

matchesKeyword(text, keyword) ==
    IF Falsy(text) \/ Falsy(keyword) THEN FALSE
    ELSE LET normalizedText == normalizeText(text)
             syns == getSynonyms(keyword)
         IN  \E i \in 1..Len(syns), j \in 1..Len(suffixes) :
                TestWord(normalizedText, syns[i] \o suffixes[j])

\* the ends e at which '\b' + syn + '\w*\b' can stop when it starts at s
MatchEnds(t, syn, s) ==
    IF /\ s + Len(syn) - 1 <= Len(t)
       /\ SubSeq(t, s, s + Len(syn) - 1) = syn
       /\ Boundary(t, s - 1)
    THEN {e \in (s + Len(syn) - 1)..Len(t) :
            /\ \A i \in (s + Len(syn))..e : t[i] \in WordChars
            /\ Boundary(t, e)}
    ELSE {}

RECURSIVE CountFrom(_, _, _)
\* t.match(regex) with the g flag: leftmost, greedy, non-overlapping
CountFrom(t, syn, s) ==
    IF s > Len(t) THEN 0
    ELSE LET ends == MatchEnds(t, syn, s)
         IN  IF ends = {} THEN CountFrom(t, syn, s + 1)
             ELSE LET e == CHOOSE x \in ends : \A y \in ends : y <= x
                  IN  1 + CountFrom(t, syn, Max(e, s) + 1)

RECURSIVE SumCounts(_, _, _)
SumCounts(t, syns, i) ==
    IF i > Len(syns) THEN 0
    ELSE CountFrom(t, syns[i], 1) + SumCounts(t, syns, i + 1)

countKeywordOccurrences(text, keyword) ==
    IF Falsy(text) \/ Falsy(keyword) THEN 0
    ELSE SumCounts(normalizeText(text), getSynonyms(keyword), 1)

(***************************************************************************)
(* The repository holds the class RSSNewsScraper twice: in                 *)
(* src/scrapers/sites/RSSNewsScraper.js and in src/routes/index.js (lines  *)
(* 18-590).  The second differs from the first in isValidNews, in the      *)
(* category searchGoogleNews gives its items (detectCategory) and in the   *)
(* comparison of categories in scrapeByCategory.  An operator that reads   *)
(* one of these takes the class as its first argument, this.               *)
(***************************************************************************)
Scrapers == {"sites", "routes"}

(***************************************************************************)
(* Content validator (RSSNewsScraper.js 113, 174-186; routes/index.js      *)
(* 134-165, 284-325)                                                       *)
(***************************************************************************)
spamKeywords == << <<"c","a","s","i","n","o">>, <<"b","a","h","i","s">>,
                   <<"k","u","m","a","r">>, <<"s","e","x">>,
                   <<"p","o","r","n","o">>, <<"x","x","x">> >>

MinTitleLength == 15

MaxTitleLength == 300

\* /^\d{1,2}\s+(ocak|...|aralık)\s+\d{4}$/i.test(t), for the month names that
\* are written without Turkish letters
IsDateOnly(t) ==
    LET months == { <<"o","c","a","k">>, <<"m","a","r","t">>, <<"n","i","s","a","n">>,
                    <<"h","a","z","i","r","a","n">>, <<"t","e","m","m","u","z">>,
                    <<"e","k","i","m">> }
        digits(x) == \A i \in 1..Len(x) : x[i] \in Range(DigitChars)
        spaces(x) == \A i \in 1..Len(x) : x[i] = " "
    IN  \E d \in 1..2, m \in months :
            \E a \in (d + 1)..Len(t), b \in 1..Len(t) :
                /\ a + Len(m) < b /\ b + 4 = Len(t)
                /\ digits(SubSeq(t, 1, d))
                /\ spaces(SubSeq(t, d + 1, a))
                /\ SubSeq(t, a + 1, a + Len(m)) = m
                /\ spaces(SubSeq(t, a + Len(m) + 1, b))
                /\ digits(SubSeq(t, b + 1, Len(t)))

\* the rules the class of routes/index.js adds to isValidNews (lines 297-323),
\* with invalidPatterns reduced to five of its entries and sourceOnlyPatterns
\* to its entries without Turkish letters
PassesContentRules(title) ==
    LET invalidPatterns ==
            { <<"a","l","l"," ","r","i","g","h","t","s"," ","r","e","s","e","r","v","e","d">>,
              <<"c","o","p","y","r","i","g","h","t">>,
              <<"a","n","a"," ","s","a","y","f","a">>,
              <<"s","o","s","y","a","l"," ","m","e","d","y","a">>,
              <<"r","e","a","d"," ","m","o","r","e">> }
        sourceOnlyPatterns == { <<"n","t","v">>, <<"s","a","b","a","h">> }
        startsWith(p) == Len(title) >= Len(p) /\ SubSeq(title, 1, Len(p)) = p
        \* the characters the class [\w\s...,!?:;'"()-] lets pass
        plain == WordChars \cup {" ", ".", ",", "!", "?", ":", ";", "'", "\"", "(", ")", "-"}
        specialCharCount == Cardinality({i \in 1..Len(title) : title[i] \notin plain})
    IN  /\ ~(Len(title) > MaxTitleLength)
        /\ \A pattern \in invalidPatterns : ~includes(title, pattern)
        /\ ~(startsWith(<<"h","t","t","p">>) \/ startsWith(<<"w","w","w",".">>))
        /\ ~IsDateOnly(title)
        /\ title \notin sourceOnlyPatterns
        /\ ~(specialCharCount * 10 > Len(title) * 3)

isValidNews(this, item) ==
    LET title == normalizeText(OrElse(item.title, <<>>))
        content == normalizeText(OrElse(OrElse(item.contentSnippet, item.content), <<>>))
        combined == title \o <<" ">> \o content
    IN  /\ \A k \in 1..Len(spamKeywords) : ~includes(combined, spamKeywords[k])
        /\ ~(Len(title) < MinTitleLength)
        /\ this = "routes" => PassesContentRules(title)

(***************************************************************************)
(* Category classifier (routes/index.js 103-114, 197-229)                  *)
(***************************************************************************)
\* categoryKeywords, reduced to three of its categories and some of their words
categoryKeywords == <<
    [category |-> "Ekonomi",
     keywords |-> << <<"d","o","l","a","r">>, <<"b","o","r","s","a">>,
                     <<"e","k","o","n","o","m","i">>, <<"p","i","y","a","s","a">>,
                     <<"f","i","y","a","t">> >>],
    [category |-> "Spor",
     keywords |-> << <<"g","o","l">>, <<"f","u","t","b","o","l">>, <<"s","p","o","r">>,
                     <<"d","e","r","b","i">> >>],
    [category |-> "Son Dakika",
     keywords |-> << <<"s","o","n"," ","d","a","k","i","k","a">>, <<"a","c","i","l">> >>] >>

\* scores[category] is 3 for every word found in the title and 1 for every
\* word found elsewhere in the text; the first category of the highest score
\* wins, with a score of 2 at least
detectCategory(title, description) ==
    LET text == normalizeText(title \o <<" ">> \o description)
        score(keywords) ==
            3 * Cardinality({k \in 1..Len(keywords) :
                    /\ includes(text, toLowerCase(keywords[k]))
                    /\ includes(normalizeText(title), toLowerCase(keywords[k]))})
            + Cardinality({k \in 1..Len(keywords) :
                    /\ includes(text, toLowerCase(keywords[k]))
                    /\ ~includes(normalizeText(title), toLowerCase(keywords[k]))})
        scores == [k \in 1..Len(categoryKeywords) |-> score(categoryKeywords[k].keywords)]
        maxScore == CHOOSE x \in Range(scores) \cup {0} : \A y \in Range(scores) : y <= x
        first == CHOOSE k \in 1..Len(scores) :
                    scores[k] = maxScore /\ \A j \in 1..(k - 1) : scores[j] < maxScore
    IN  IF maxScore >= 2 THEN categoryKeywords[first].category ELSE "Genel"

(***************************************************************************)
(* Source registry and the feeds' contents.  The registry is the first six *)
(* economy feeds and the three sport feeds of rssFeeds, in the order of    *)
(* the object literal.  FeedItems is what parser.parseURL yields for a     *)
(* feed when it succeeds: test data.                                       *)
(***************************************************************************)
NtvOrigin == "https://www.ntv.com.tr"

CnnOrigin == "https://www.cnnturk.com"

HurriyetOrigin == "https://www.hurriyet.com.tr"

SabahOrigin == "https://www.sabah.com.tr"

GoogleOrigin == "https://news.google.com"

SozcuOrigin == "https://www.sozcu.com.tr"

HaberturkOrigin == "https://www.haberturk.com"

rssFeeds == <<
    [key |-> "ntv_ekonomi", url |-> [origin |-> NtvOrigin, path |-> "/ekonomi.rss"],
     category |-> "Ekonomi", source |-> <<"N","T","V">>],
    [key |-> "cnn_ekonomi", url |-> [origin |-> CnnOrigin, path |-> "/feed/rss/ekonomi/news"],
     category |-> "Ekonomi", source |-> <<"C","N","N"," ","T","u","r","k">>],
    [key |-> "hurriyet_ekonomi", url |-> [origin |-> HurriyetOrigin, path |-> "/rss/ekonomi"],
     category |-> "Ekonomi", source |-> <<"H","u","r","r","i","y","e","t">>],
    [key |-> "sozcu_ekonomi",
     url |-> [origin |-> SozcuOrigin, path |-> "/feeds-rss-category-ekonomi"],
     category |-> "Ekonomi", source |-> <<"S","o","z","c","u">>],
    [key |-> "haberturk_ekonomi", url |-> [origin |-> HaberturkOrigin, path |-> "/rss/ekonomi.xml"],
     category |-> "Ekonomi", source |-> <<"H","a","b","e","r","t","u","r","k">>],
    [key |-> "sabah_ekonomi", url |-> [origin |-> SabahOrigin, path |-> "/rss/ekonomi.xml"],
     category |-> "Ekonomi", source |-> <<"S","a","b","a","h">>],
    [key |-> "cnn_spor", url |-> [origin |-> CnnOrigin, path |-> "/feed/rss/spor/news"],
     category |-> "Spor", source |-> <<"C","N","N"," ","T","u","r","k">>],
    [key |-> "hurriyet_spor", url |-> [origin |-> HurriyetOrigin, path |-> "/rss/spor"],
     category |-> "Spor", source |-> <<"H","u","r","r","i","y","e","t">>],
    [key |-> "sabah_spor", url |-> [origin |-> SabahOrigin, path |-> "/rss/spor.xml"],
     category |-> "Spor", source |-> <<"S","a","b","a","h">>] >>

FeedKeys == {rssFeeds[i].key : i \in 1..Len(rssFeeds)}

FeedIndex(key) == CHOOSE i \in 1..Len(rssFeeds) : rssFeeds[i].key = key

FeedInfo(key) == rssFeeds[FeedIndex(key)]

\* the time at which the model starts, in minutes
T0 == 3000

NoDate == 0 - 1

NoLink == [kind |-> "none", origin |-> "null", path |-> "null"]

AbsLink(origin, path) == [kind |-> "abs", origin |-> origin, path |-> path]

RelLink(path) == [kind |-> "rel", origin |-> "null", path |-> path]

TitlePetrolFiyati == <<"p","e","t","r","o","l"," ","f","i","y","a","t","i"," ","a","r","t","t","i">>

TitleBrentPetrol ==
    <<"b","r","e","n","t"," ","p","e","t","r","o","l"," ","f","i","y","a","t","i"," ","r","e","k","o","r">>

TitlePetrolde == <<"P","e","t","r","o","l","d","e"," ","s","o","n"," ","d","u","r","u","m"," ","n","e">>

TitlePiyasalar == <<"p","i","y","a","s","a","l","a","r","d","a"," ","s","o","n"," ","d","u","r","u","m">>

TitleKisa == <<"k","i","s","a"," ","b","a","s","l","i","k">>

TitleCasino ==
    <<"c","a","s","i","n","o"," ","p","e","t","r","o","l"," ","h","a","b","e","r","l","e","r","i">>

TitleCopyright ==
    <<"c","o","p","y","r","i","g","h","t"," ","p","e","t","r","o","l"," ","f","i","y","a","t","i">>

TitleVaril == <<"v","a","r","i","l"," ","f","i","y","a","t","i"," ","d","u","s","u","y","o","r">>

DescPetrolBrent ==
    <<"p","e","t","r","o","l"," ","v","e"," ","b","r","e","n","t"," ","d","u","s","t","u">>

DescPetrol == <<"p","e","t","r","o","l"," ","d","u","s","t","u">>

DashNtv == <<" ","-"," ","N","T","V">>

DashSabah == <<" ","-"," ","S","a","b","a","h">>

RawItem(title, snippet, link, pubDate) ==
    [title |-> title, contentSnippet |-> snippet, content |-> Null, summary |-> Null,
     link |-> link, pubDate |-> pubDate]

FeedItems(key) ==
    CASE key = "ntv_ekonomi" ->
            << RawItem(TitlePetrolFiyati, Null, RelLink("/a1"), T0 - 200),
               RawItem(TitleKisa, DescPetrolBrent, AbsLink(NtvOrigin, "/a2"), T0 - 10) >>
      [] key = "cnn_ekonomi" ->
            << RawItem(TitlePiyasalar, DescPetrolBrent, AbsLink(CnnOrigin, "/c1"), T0 - 30),
               RawItem(TitleCasino, Null, AbsLink(CnnOrigin, "/c3"), T0 - 30),
               RawItem(TitlePiyasalar, DescPetrol, AbsLink(CnnOrigin, "/c2"), T0 - 30) >>
      [] key = "hurriyet_ekonomi" ->
            << RawItem(TitleBrentPetrol, Null, AbsLink(NtvOrigin, "/a1"), T0 - 30),
               RawItem(TitlePetrolFiyati, Null, NoLink, T0 - 2000) >>
      [] key = "sozcu_ekonomi" -> <<>>
      [] key = "haberturk_ekonomi" ->
            << RawItem(TitleKisa, Null, AbsLink(HaberturkOrigin, "/h1"), T0 - 10),
               RawItem(TitleCopyright, Null, AbsLink(HaberturkOrigin, "/h2"), T0 - 2000) >>
      [] key = "sabah_ekonomi" ->
            << RawItem(TitleVaril, Null, RelLink("/e6"), T0 - 2000) >>
      [] key = "cnn_spor" ->
            << RawItem(TitlePetrolde, Null, AbsLink(CnnOrigin, "/s1"), T0 - 2000) >>
      [] key = "hurriyet_spor" ->
            << RawItem(TitlePetrolFiyati, Null, AbsLink(HurriyetOrigin, "/s2"), T0 - 400) >>
      [] key = "sabah_spor" ->
            << RawItem(TitleBrentPetrol, Null, RelLink("/s3"), NoDate) >>

PetrolKeyword == <<"p","e","t","r","o","l">>

\* a keyword the synonym table does not hold
FiyatiKeyword == <<"f","i","y","a","t","i">>

\* the keywords the calls of the model pass to scrapeFromFeed
Keywords == {Null, PetrolKeyword, FiyatiKeyword, <<"a","b">>}

\* what the search-engine feed yields for a search term when it succeeds
GoogleItems(term) ==
    CASE term = <<"p","e","t","r","o","l">> ->
            << RawItem(TitlePetrolFiyati \o DashNtv, Null, AbsLink(GoogleOrigin, "/g1"), T0 - 90),
               RawItem(TitleBrentPetrol \o DashNtv, Null, AbsLink(NtvOrigin, "/a1"), T0 - 2000) >>
      [] term = <<"b","r","e","n","t">> ->
            << RawItem(TitlePetrolFiyati \o DashNtv, Null, AbsLink(GoogleOrigin, "/g1"), T0 - 90) >>
      [] term = <<"f","i","y","a","t","i">> ->
            << RawItem(TitlePetrolFiyati \o DashNtv, Null, AbsLink(GoogleOrigin, "/g1"), T0 - 90),
               RawItem(TitleBrentPetrol \o DashNtv, Null, AbsLink(NtvOrigin, "/a1"), T0 - 2000),
               RawItem(TitleKisa, Null, AbsLink(GoogleOrigin, "/g4"), NoDate) >>
      [] term = <<"v","a","r","i","l">> ->
            << RawItem(TitleVaril \o DashSabah, Null, AbsLink(GoogleOrigin, "/g3"), NoDate),
               RawItem(TitleKisa, Null, AbsLink(GoogleOrigin, "/g4"), NoDate) >>
      [] OTHER -> <<>>

(***************************************************************************)
(* Feed fetcher (RSSNewsScraper.js 188-198, 250-341)                       *)
(***************************************************************************)
\* a link is missing ("none"), starts with http:// or https:// ("abs"), is
\* resolved by new URL(url, baseUrl.origin) ("rel"), or makes new URL throw
\* ("bad"): the catch hands it back as it is
fixUrl(link, feedUrl) ==
    IF link.kind = "none" THEN NullUrl
    ELSE IF link.kind = "abs" THEN [origin |-> link.origin, path |-> link.path]
    ELSE IF link.kind = "rel" THEN [origin |-> feedUrl.origin, path |-> link.path]
    ELSE [origin |-> link.origin, path |-> link.path]

\* item.pubDate ? new Date(item.pubDate) : new Date()
PublishedAt(item, now) == IF item.pubDate = NoDate THEN now ELSE item.pubDate

MaxDescription == 500

\* a filter that asks for the title and the description both.  C12 is tested
\* against it.
KeepsItemBoth(this, item, keyword) ==
    /\ isValidNews(this, item)
    /\ \/ Falsy(keyword)
       \/ /\ matchesKeyword(OrElse(item.title, <<>>), keyword)
          /\ ~(countKeywordOccurrences(
                OrElse(OrElse(OrElse(item.contentSnippet, item.content), item.summary), <<>>),
                keyword) < 2)

KeepsItem(this, item, keyword) ==
    /\ isValidNews(this, item)
    /\ \/ Falsy(keyword)
       \/ matchesKeyword(OrElse(item.title, <<>>), keyword)
       \/ ~(countKeywordOccurrences(
                OrElse(OrElse(OrElse(item.contentSnippet, item.content), item.summary), <<>>),
                keyword) < 2)

FeedResult(feedKey, feedInfo, item, now) ==
    [title |-> trim(OrElse(item.title, <<>>)),
     description |->
        trim(substring(
            OrElse(OrElse(OrElse(item.contentSnippet, item.content), item.summary), <<>>),
            0, MaxDescription)),
     url |-> fixUrl(item.link, feedInfo.url),
     publishedAt |-> PublishedAt(item, now),
     source |-> feedInfo.source,
     category |-> feedInfo.category,
     feedKey |-> feedKey]

\* the items of each feed that the loop of scrapeFromFeed keeps, by keyword:
\* the filters read nothing but the item and the keyword, so they are
\* evaluated once for the test data
KeptOf ==
    [this \in Scrapers |-> [key \in FeedKeys |-> [keyword \in Keywords |->
        {i \in 1..Len(FeedItems(key)) : KeepsItem(this, FeedItems(key)[i], keyword)}]]]

\* scrapeFromFeed without its catch: a rejection of parser.parseURL rejects the
\* promise.  C3 is tested against it.
scrapeFromFeedUncaught(this, feedKey, feedInfo, keyword, parsed, now) ==
    IF parsed.ok
    THEN [rejected |-> FALSE,
          results |-> LET kept == FilterIdx(parsed.items,
                                    {i \in 1..Len(parsed.items) :
                                        KeepsItem(this, parsed.items[i], keyword)}, 1)
                      IN  [i \in 1..Len(kept) |-> FeedResult(feedKey, feedInfo, kept[i], now)]]
    ELSE [rejected |-> TRUE, results |-> <<>>]

\* the value the promise of scrapeFromFeed settles with; parsed is the outcome
\* of parser.parseURL: a rejection is caught and leaves results empty
scrapeFromFeed(this, feedKey, feedInfo, keyword, parsed, now) ==
    IF parsed.ok
    THEN LET items == parsed.items
             keep == IF items = FeedItems(feedKey) /\ keyword \in Keywords
                     THEN KeptOf[this][feedKey][keyword]
                     ELSE {i \in 1..Len(items) : KeepsItem(this, items[i], keyword)}
             kept == FilterIdx(items, keep, 1)
         IN  [rejected |-> FALSE,
              results |-> [i \in 1..Len(kept) |-> FeedResult(feedKey, feedInfo, kept[i], now)]]
    ELSE [rejected |-> FALSE, results |-> <<>>]

ParseOk(key) == [ok |-> TRUE, items |-> FeedItems(key)]

ParseFailed == [ok |-> FALSE, items |-> <<>>]

\* the position of the last ' - ' of a title, 0 when there is none
LastDash(title) ==
    LET at == {s \in 1..(Len(title) - 2) : SubSeq(title, s, s + 2) = <<" ", "-", " ">>}
    IN  IF at = {} THEN 0 ELSE CHOOSE s \in at : \A x \in at : x <= s

MaxGoogleItems == 15

MaxSearchTerms == 3

\* the title searchGoogleNews gives an item: what stands before the last ' - '
CleanTitle(title) ==
    LET d == LastDash(title)
        cleaned == IF d = 0 THEN <<>> ELSE trim(SubSeq(title, 1, d - 1))
    IN  IF cleaned = <<>> THEN title ELSE cleaned

\* the categories of the items of the search-engine feed: detectCategory reads
\* nothing but the texts, so it is evaluated once for the test data
DetectedOf ==
    LET terms == UNION {Range(getSynonyms(k)) : k \in Keywords \ {Null}}
        texts == UNION {{<<CleanTitle(OrElse(GoogleItems(t)[i].title, <<>>)),
                           OrElse(OrElse(GoogleItems(t)[i].contentSnippet,
                                         GoogleItems(t)[i].content), <<>>)>> :
                            i \in 1..Len(GoogleItems(t))} : t \in terms}
    IN  [x \in texts |-> detectCategory(x[1], x[2])]

\* the items of the search-engine feed that pass isValidNews, by class and term
GoogleKeptOf ==
    [this \in Scrapers |->
        [t \in UNION {Range(getSynonyms(k)) : k \in Keywords \ {Null}} |->
            {i \in 1..Len(GoogleItems(t)) :
                isValidNews(this, [title |-> OrElse(GoogleItems(t)[i].title, <<>>),
                                   contentSnippet |->
                                        OrElse(OrElse(GoogleItems(t)[i].contentSnippet,
                                                      GoogleItems(t)[i].content), <<>>),
                                   content |-> Null])}]]

GoogleResult(this, item, now) ==
    LET title == OrElse(item.title, <<>>)
        description == OrElse(OrElse(item.contentSnippet, item.content), <<>>)
        d == LastDash(title)
        cleanTitle == CleanTitle(title)
    IN  [title |-> cleanTitle,
         description |-> trim(substring(description, 0, MaxDescription)),
         url |-> IF item.link.kind = "none" THEN NullUrl
                 ELSE [origin |-> item.link.origin, path |-> item.link.path],
         publishedAt |-> PublishedAt(item, now),
         source |-> IF d = 0 THEN <<"G","o","o","g","l","e"," ","N","e","w","s">>
                    ELSE trim(SubSeq(title, d + 3, Len(title))),
         category |-> IF this = "routes"
                      THEN (IF <<cleanTitle, description>> \in DOMAIN DetectedOf
                            THEN DetectedOf[<<cleanTitle, description>>]
                            ELSE detectCategory(cleanTitle, description))
                      ELSE "Google News",
         feedKey |-> "google_news"]

\* a search term whose failed request still adds the items of the term.  C19 is
\* tested against it.
GoogleTermResultsOfFailed(this, term, parsed, now) ==
    LET items == SubSeq(GoogleItems(term), 1, Min(MaxGoogleItems, Len(GoogleItems(term))))
        kept == FilterIdx(items, GoogleKeptOf[this][term], 1)
    IN  [i \in 1..Len(kept) |-> GoogleResult(this, kept[i], now)]

\* the results one search term adds (searchGoogleNews, the body of its loop)
GoogleTermResults(this, term, parsed, now) ==
    IF parsed.ok
    THEN LET items == SubSeq(parsed.items, 1, Min(MaxGoogleItems, Len(parsed.items)))
             keep == IF term \in DOMAIN GoogleKeptOf[this] /\ items = GoogleItems(term)
                     THEN GoogleKeptOf[this][term]
                     ELSE
                     {i \in 1..Len(items) :
                        isValidNews(this, [title |-> OrElse(items[i].title, <<>>),
                                     contentSnippet |->
                                        OrElse(OrElse(items[i].contentSnippet, items[i].content), <<>>),
                                     content |-> Null])}
             kept == FilterIdx(items, keep, 1)
         IN  [i \in 1..Len(kept) |-> GoogleResult(this, kept[i], now)]
    ELSE <<>>

searchTerms(keyword) ==
    LET syns == getSynonyms(keyword) IN SubSeq(syns, 1, Min(MaxSearchTerms, Len(syns)))

RECURSIVE UniqueByUrl(_)
\* filter with a 'seen' set: the first item of each url, none without url
UniqueByUrl(s) ==
    IF s = <<>> THEN <<>>
    ELSE LET r == UniqueByUrl(SubSeq(s, 1, Len(s) - 1))
             x == s[Len(s)]
         IN  IF x.url = NullUrl \/ x.url \in {r[i].url : i \in 1..Len(r)}
             THEN r ELSE Append(r, x)

(***************************************************************************)
(* Aggregation orchestrator (RSSNewsScraper.js 343-435)                    *)
(***************************************************************************)
BatchSize == 5

DefaultLimit == 100

DefaultMaxSources == 25

DefaultCategoryLimit == 50

HourMinutes == 60

\* a score whose recency bonus counts the full hour, the sixth and the
\* twenty-fourth hour in.  C16 is tested against it.
RelevanceScoreInclusive(item, keyword, now) ==
    LET hoursDiffMinutes == now - item.publishedAt
    IN  countKeywordOccurrences(item.title, keyword) * 10
        + countKeywordOccurrences(item.description, keyword) * 2
        + (IF item.category = "Google News" THEN 5 ELSE 0)
        + (IF hoursDiffMinutes <= 1 * HourMinutes THEN 20
           ELSE IF hoursDiffMinutes <= 6 * HourMinutes THEN 10
           ELSE IF hoursDiffMinutes <= 24 * HourMinutes THEN 5
           ELSE 0)

RelevanceScore(item, keyword, now) ==
    LET hoursDiffMinutes == now - item.publishedAt
    IN  countKeywordOccurrences(item.title, keyword) * 10
        + countKeywordOccurrences(item.description, keyword) * 2
        + (IF item.category = "Google News" THEN 5 ELSE 0)
        + (IF hoursDiffMinutes < 1 * HourMinutes THEN 20
           ELSE IF hoursDiffMinutes < 6 * HourMinutes THEN 10
           ELSE IF hoursDiffMinutes < 24 * HourMinutes THEN 5
           ELSE 0)

Scored(items, keyword, now) ==
    [i \in 1..Len(items) |->
        [title |-> items[i].title, description |-> items[i].description,
         url |-> items[i].url, publishedAt |-> items[i].publishedAt,
         source |-> items[i].source, category |-> items[i].category,
         feedKey |-> items[i].feedKey,
         relevanceScore |-> RelevanceScore(items[i], keyword, now)]]

\* x goes before the elements of its own score: a sort that is not stable.
\* C11 is tested against it.
InsertByScoreTiesFirst(sorted, x) ==
    LET n == Cardinality({i \in 1..Len(sorted) : sorted[i].relevanceScore > x.relevanceScore})
    IN  SubSeq(sorted, 1, n) \o <<x>> \o SubSeq(sorted, n + 1, Len(sorted))

\* x goes behind every element that does not come after it: Array.prototype.sort
\* is stable
InsertByScore(sorted, x) ==
    LET n == Cardinality({i \in 1..Len(sorted) : sorted[i].relevanceScore >= x.relevanceScore})
    IN  SubSeq(sorted, 1, n) \o <<x>> \o SubSeq(sorted, n + 1, Len(sorted))

RECURSIVE SortByScore(_)
\* scored.sort((a, b) => b.relevanceScore - a.relevanceScore)
SortByScore(s) ==
    IF s = <<>> THEN <<>>
    ELSE InsertByScore(SortByScore(SubSeq(s, 1, Len(s) - 1)), s[Len(s)])

InsertByDate(sorted, x) ==
    LET n == Cardinality({i \in 1..Len(sorted) : sorted[i].publishedAt >= x.publishedAt})
    IN  SubSeq(sorted, 1, n) \o <<x>> \o SubSeq(sorted, n + 1, Len(sorted))

RECURSIVE SortByDate(_)
\* allResults.sort((a, b) => b.publishedAt - a.publishedAt)
SortByDate(s) ==
    IF s = <<>> THEN <<>>
    ELSE InsertByDate(SortByDate(SubSeq(s, 1, Len(s) - 1)), s[Len(s)])

\* array.slice(from, to) for 0 <= from and 0 <= to
slice(s, from, to) == SubSeq(s, from + 1, Min(to, Len(s)))

\* a ranking that removes the duplicates before it sorts.  C1 is tested
\* against it.
RankedDedupFirst(allResults, keyword, now) ==
    SortByScore(UniqueByUrl(Scored(allResults, keyword, now)))

\* liveSearch 387-411: score, sort, deduplicate, truncate
Ranked(allResults, keyword, now) == UniqueByUrl(SortByScore(Scored(allResults, keyword, now)))

Truncated(unique, limit) == slice(unique, 0, limit)

\* a return value truncated before the duplicates are removed.  C10 is tested
\* against it.
liveSearchReturnCutFirst(allResults, keyword, limit, now) ==
    UniqueByUrl(slice(SortByScore(Scored(allResults, keyword, now)), 0, limit))

\* the value liveSearch returns for the merged items
liveSearchReturn(allResults, keyword, limit, now) ==
    Truncated(Ranked(allResults, keyword, now), limit)

\* a check that lets a single character through.  C2 is tested against it.
KeywordRejectedBelowOne(keyword) == Falsy(keyword) \/ Len(keyword) < 1

\* the keyword check of liveSearch (line 360)
KeywordRejected(keyword) == Falsy(keyword) \/ Len(keyword) < 2

\* the entries of the registry a call reads, as keys in registry order
KeysWhere(category, all) ==
    LET keep == {i \in 1..Len(rssFeeds) : all \/ rssFeeds[i].category = category}
        kept == FilterIdx(rssFeeds, keep, 1)
    IN  [i \in 1..Len(kept) |-> kept[i].key]

\* categoryFeeds of scrapeByCategory, as keys in registry order: the class of
\* routes/index.js compares the categories in lower case (lines 477-480)
CategoryFeeds(this, category) ==
    LET lower(c) == CASE c = "Ekonomi" -> "ekonomi"
                      [] c = "Spor" -> "spor"
                      [] c = "Bilim" -> "bilim"
                      [] OTHER -> c
        keep == {i \in 1..Len(rssFeeds) :
                    IF this = "routes"
                    THEN lower(rssFeeds[i].category) = lower(category)
                    ELSE rssFeeds[i].category = category}
        kept == FilterIdx(rssFeeds, keep, 1)
    IN  [i \in 1..Len(kept) |-> kept[i].key]

\* a chunk that takes all the feeds that are left.  C8 is tested against it.
ChunkAtRest(feeds, i) == slice(feeds, i, Len(feeds))

\* feeds.slice(i, i + 5)
ChunkAt(feeds, i) == slice(feeds, i, i + BatchSize)

IsInjective(f) == \A a, b \in DOMAIN f : f[a] = f[b] => a = b

\* the keys of a set, in registry order
InRegistryOrder(keySet) ==
    LET keep == {i \in 1..Len(rssFeeds) : rssFeeds[i].key \in keySet}
        kept == FilterIdx(rssFeeds, keep, 1)
    IN  [i \in 1..Len(kept) |-> kept[i].key]

RECURSIVE Arrangements(_, _)
\* the ways to deal m of the keys into chunks of BatchSize, the last one shorter
Arrangements(keySet, m) ==
    IF m = 0 THEN {<<>>}
    ELSE LET k == Min(BatchSize, m)
         IN  UNION {{InRegistryOrder(chunk) \o rest : rest \in Arrangements(keySet \ chunk, m - k)} :
                        chunk \in {x \in SUBSET keySet : Cardinality(x) = k}}

\* a shuffle that is not cut to maxSources.  C18 is tested against it.
SamplesUncut(keys, maxSources) == Arrangements(Range(keys), Len(keys))

\* feeds.sort(() => Math.random() - 0.5).slice(0, maxSources): any arrangement
\* of any maxSources of the keys.  The order inside a chunk is first read when
\* Promise.all hands back the chunk's results, and is chosen there (Orders), so
\* here one arrangement stands for all that agree on the contents of the chunks.
Samples(keys, maxSources) == Arrangements(Range(keys), Min(maxSources, Len(keys)))

ChunkOrders == [n \in 0..BatchSize |-> {p \in [1..n -> 1..n] : IsInjective(p)}]

\* the orders in which a chunk of n results can come back
Orders(kind, n) == IF kind = "liveSearch" THEN ChunkOrders[n] ELSE {[i \in 1..n |-> i]}

(***************************************************************************)
(* State.  calls[c] holds the arguments and the local variables of one     *)
(* call of liveSearch, scrapeByCategory or scrapeAllStaggered, with the    *)
(* await it is suspended at.  now is the clock.                            *)
(***************************************************************************)
VARIABLES now, calls, store, savers, nextId, history, probe, service, memoryCache, detector

\* the variables of the persistence
saveVars == <<store, savers, nextId, history>>

CallIds == {1, 2}

\* the largest limit a caller passes besides the defaults
MaxLimit == 2

\* a maxSources below the size of the registry
SmallSample == 2

NoCategory == ""

Limits == (1..MaxLimit) \cup {DefaultLimit}

LiveSearchArgs(this, keyword, category, limit, maxSources, includeGoogleNews) ==
    [this |-> this, keyword |-> keyword, category |-> category, limit |-> limit,
     maxSources |-> maxSources, includeGoogleNews |-> includeGoogleNews]

\* the calls of liveSearch the model makes: liveSearch(k, {category: 'Spor'}) for
\* keywords of length 0, 1 and 2, searches of the economy feeds (two batches), of
\* a sample of the whole registry, and of the sport feeds for a keyword with
\* synonyms
LiveSearchInputs ==
    {LiveSearchArgs("sites", k, "Spor", DefaultLimit, DefaultMaxSources, TRUE) :
        k \in {Null, <<>>, <<"b">>, <<"a","b">>}}
    \cup {LiveSearchArgs("sites", FiyatiKeyword, "Ekonomi", l, DefaultMaxSources, g) :
        l \in Limits, g \in BOOLEAN}
    \cup {LiveSearchArgs("sites", FiyatiKeyword, NoCategory, l, SmallSample, g) :
        l \in Limits, g \in BOOLEAN}
    \cup {LiveSearchArgs(this, PetrolKeyword, "Spor", l, DefaultMaxSources, g) :
        this \in Scrapers, l \in Limits, g \in BOOLEAN}
    \cup {LiveSearchArgs("routes", FiyatiKeyword, "Ekonomi", DefaultLimit, DefaultMaxSources, TRUE)}

Pending == [state |-> "pending", ok |-> FALSE, key |-> "", results |-> <<>>]

\* googleNewsPromise of a call without the channel (null); errors counts the
\* requests of the channel that failed, each of which searchGoogleNews logs
NoGoogle == [state |-> "none", term |-> 0, results |-> <<>>, errors |-> 0]

IdleCall ==
    [pc |-> "idle", this |-> "sites", kind |-> "none", keyword |-> Null, category |-> NoCategory,
     limit |-> 0, maxSources |-> 0, includeGoogleNews |-> FALSE, callback |-> "none",
     feeds |-> <<>>, i |-> 0, promises |-> <<>>, allResults |-> <<>>,
     google |-> NoGoogle, unique |-> <<>>, output |-> <<>>,
     processed |-> 0, progress |-> <<>>]

Returned(s) == s.pc = "done"

Threw(s) == s.pc = "threw"

\* the registry fetches of a call that are in flight
InFlight(s) == {j \in 1..Len(s.promises) : s.promises[j].state = "pending"}

\* Promise.all(promises) is settled once every promise of the chunk is
AllSettled(s) == InFlight(s) = {}

\* a loop without its break.  C9 is tested against it.
LimitReachedNever(allResults, limit) == FALSE

\* if (allResults.length >= limit) break
LimitReached(allResults, limit) == Len(allResults) >= limit

\* an accumulator that the calls of one scraper share: each call pushes onto
\* what the first call holds.  C20 is tested against it.
allResultsShared(cs, c) == cs[1].allResults

\* const allResults = [] of an aggregation call: the array the call declares in
\* its own body and pushes its results onto
allResults(cs, c) == cs[c].allResults

\* chunk.map(([key, info]) => this.scrapeFromFeed(key, info, keyword)): every
\* fetch of the chunk is issued before the call is suspended
IssueChunk(s, chunk) ==
    [s EXCEPT !.pc = "await",
              !.promises = [j \in 1..Len(chunk) |-> [Pending EXCEPT !.key = chunk[j]]]]

\* results.flat() for the results Promise.all hands back: the results of the
\* chunk's promises in the order of the chunk, which the shuffle left open
\* (only the places of the promises that hold items tell two orders apart)
ChunkResults(s) ==
    LET all == [j \in 1..Len(s.promises) |-> s.promises[j].results]
        full == FilterIdx(all, {j \in 1..Len(all) : all[j] # <<>>}, 1)
    IN  {Flat([j \in 1..Len(full) |-> full[order[j]]]) : order \in Orders(s.kind, Len(full))}

\* liveSearch from line 387 to its return
FinishLiveSearch(s, t) ==
    [s EXCEPT !.pc = "done",
              !.unique = Ranked(s.allResults, s.keyword, t),
              !.output = liveSearchReturn(s.allResults, s.keyword, s.limit, t)]

\* liveSearch after its loop: await googleNewsPromise, if there is one
AfterLoop(s, t) ==
    IF s.google.state # "none" THEN [s EXCEPT !.pc = "google"] ELSE FinishLiveSearch(s, t)

\* scrapeByCategory line 354
FinishByCategory(s) ==
    [s EXCEPT !.pc = "done", !.output = slice(SortByDate(s.allResults), 0, s.limit)]

\* scrapeAllStaggered 429-434
FinishStaggered(s) ==
    [s EXCEPT !.pc = "done", !.unique = UniqueByUrl(s.allResults),
              !.output = UniqueByUrl(s.allResults)]

\* the head of the loop of liveSearch and scrapeByCategory, up to the next await
LoopHead(s, t) ==
    IF s.i < Len(s.feeds) THEN IssueChunk(s, ChunkAt(s.feeds, s.i))
    ELSE IF s.kind = "liveSearch" THEN AfterLoop(s, t)
    ELSE FinishByCategory(s)

\* the head of the loop of scrapeAllStaggered: one feed at a time
StaggeredHead(s) ==
    IF s.i < Len(s.feeds) THEN IssueChunk(s, slice(s.feeds, s.i, s.i + 1))
    ELSE FinishStaggered(s)

\* searchGoogleNews up to its first await
StartGoogle(keyword) ==
    IF Len(searchTerms(keyword)) = 0
    THEN [state |-> "fulfilled", term |-> 0, results |-> <<>>, errors |-> 0]
    ELSE [state |-> "running", term |-> 1, results |-> <<>>, errors |-> 0]

(***************************************************************************)
(* liveSearch(keyword, {category, limit, maxSources, includeGoogleNews})   *)
(***************************************************************************)
LiveSearchCall(c) ==
    /\ calls[c].pc = "idle"
    /\ \E a \in LiveSearchInputs :
        LET s == [calls[c] EXCEPT !.this = a.this,
                                  !.kind = "liveSearch", !.keyword = a.keyword,
                                  !.category = a.category, !.limit = a.limit,
                                  !.maxSources = a.maxSources,
                                  !.includeGoogleNews = a.includeGoogleNews]
        IN  IF KeywordRejected(a.keyword)
            THEN calls' = [calls EXCEPT ![c] = [s EXCEPT !.pc = "threw"]]
            ELSE \E feeds \in Samples(KeysWhere(a.category, a.category = NoCategory),
                                       a.maxSources) :
                    calls' = [calls EXCEPT ![c] =
                        LoopHead([s EXCEPT !.feeds = feeds,
                                           !.google = IF a.includeGoogleNews
                                                      THEN StartGoogle(a.keyword)
                                                      ELSE NoGoogle], now)]
    /\ UNCHANGED <<now, saveVars, probe, service, memoryCache, detector>>

\* parser.parseURL of one registry feed ends, well or not, and the promise of
\* its scrapeFromFeed settles
FeedSettles(c) ==
    /\ calls[c].pc = "await"
    /\ \E j \in InFlight(calls[c]), ok \in BOOLEAN :
        LET s == calls[c]
            key == s.promises[j].key
            r == scrapeFromFeed(s.this, key, FeedInfo(key),
                                IF s.kind = "scrapeAllStaggered" THEN Null ELSE s.keyword,
                                IF ok THEN ParseOk(key) ELSE ParseFailed, now)
        IN  calls' = [calls EXCEPT ![c].promises[j] =
                        [state |-> IF r.rejected THEN "rejected" ELSE "fulfilled",
                         ok |-> ok, key |-> key, results |-> r.results]]
    /\ UNCHANGED <<now, saveVars, probe, service, memoryCache, detector>>

\* await Promise.all(promises) continues: every promise of the chunk is settled
BatchResolved(c) ==
    /\ calls[c].pc = "await"
    /\ calls[c].kind \in {"liveSearch", "scrapeByCategory"}
    /\ AllSettled(calls[c])
    /\ LET s == calls[c]
           n == Len(s.promises)
       IN  IF \E j \in 1..n : s.promises[j].state = "rejected"
           THEN calls' = [calls EXCEPT ![c] = [s EXCEPT !.pc = "threw", !.promises = <<>>]]
           ELSE \E flat \in ChunkResults(s) :
                LET s1 == [s EXCEPT !.allResults = allResults(calls, c) \o flat,
                                    !.promises = <<>>]
                IN  calls' = [calls EXCEPT ![c] =
                        IF s.kind = "liveSearch" /\ LimitReached(s1.allResults, s.limit)
                        THEN AfterLoop(s1, now)
                        ELSE LoopHead([s1 EXCEPT !.i = @ + BatchSize], now)]
    /\ UNCHANGED <<now, saveVars, probe, service, memoryCache, detector>>

\* one search term of searchGoogleNews ends: its items are added, or its error
\* is logged; after the last term the promise is fulfilled with the
\* deduplicated results
GoogleTermDone(c) ==
    /\ calls[c].google.state = "running"
    /\ \E ok \in BOOLEAN :
        LET s == calls[c]
            terms == searchTerms(s.keyword)
            term == terms[s.google.term]
            results == s.google.results \o
                GoogleTermResults(s.this, term,
                                  IF ok THEN [ok |-> TRUE, items |-> GoogleItems(term)]
                                  ELSE ParseFailed, now)
            errors == s.google.errors + (IF ok THEN 0 ELSE 1)
        IN  calls' = [calls EXCEPT ![c].google =
                IF s.google.term < Len(terms)
                THEN [state |-> "running", term |-> s.google.term + 1, results |-> results,
                      errors |-> errors]
                ELSE [state |-> "fulfilled", term |-> s.google.term,
                      results |-> UniqueByUrl(results), errors |-> errors]]
    /\ UNCHANGED <<now, saveVars, probe, service, memoryCache, detector>>

\* await googleNewsPromise continues
GoogleAwaited(c) ==
    /\ calls[c].pc = "google"
    /\ calls[c].google.state = "fulfilled"
    /\ calls' = [calls EXCEPT ![c] =
            FinishLiveSearch([calls[c] EXCEPT !.allResults =
                                allResults(calls, c) \o calls[c].google.results], now)]
    /\ UNCHANGED <<now, saveVars, probe, service, memoryCache, detector>>

(***************************************************************************)
(* scrapeByCategory(category, keyword = null, limit = 50)                  *)
(***************************************************************************)
ScrapeByCategoryCall(c) ==
    /\ calls[c].pc = "idle"
    /\ \E this \in Scrapers, category \in {"Spor", "spor", "Ekonomi", "Bilim"},
          keyword \in {Null, PetrolKeyword}, limit \in {1, DefaultCategoryLimit} :
        calls' = [calls EXCEPT ![c] =
            LoopHead([calls[c] EXCEPT !.this = this,
                                      !.kind = "scrapeByCategory", !.keyword = keyword,
                                      !.category = category, !.limit = limit,
                                      !.feeds = CategoryFeeds(this, category)], now)]
    /\ UNCHANGED <<now, saveVars, probe, service, memoryCache, detector>>

(***************************************************************************)
(* scrapeAllStaggered(progressCallback)                                    *)
(***************************************************************************)
ScrapeAllStaggeredCall(c) ==
    /\ calls[c].pc = "idle"
    /\ \E this \in Scrapers, callback \in {"none", "returns", "throws"} :
        calls' = [calls EXCEPT ![c] =
            StaggeredHead([calls[c] EXCEPT !.this = this,
                                           !.kind = "scrapeAllStaggered",
                                           !.callback = callback,
                                           !.feeds = KeysWhere(NoCategory, TRUE)])]
    /\ UNCHANGED <<now, saveVars, probe, service, memoryCache, detector>>

\* await this.scrapeFromFeed(...) continues (lines 421-426)
StaggeredResolved(c) ==
    /\ calls[c].pc = "await"
    /\ calls[c].kind = "scrapeAllStaggered"
    /\ AllSettled(calls[c])
    /\ LET s == calls[c]
           p == s.promises[1]
       IN  IF p.state = "rejected"
           THEN \* catch (error) { processed++; }
                calls' = [calls EXCEPT ![c] =
                    StaggeredHead([s EXCEPT !.processed = @ + 1, !.promises = <<>>,
                                            !.i = @ + 1])]
           ELSE LET s1 == [s EXCEPT !.allResults = allResults(calls, c) \o p.results,
                                    !.processed = @ + 1,
                                    !.promises = <<>>,
                                    !.i = @ + 1]
                    s2 == IF s.callback = "none" THEN s1
                          ELSE [s1 EXCEPT !.progress = Append(@,
                                    [current |-> s1.processed, total |-> Len(s.feeds),
                                     feedKey |-> p.key, found |-> Len(p.results)])]
                IN  IF s.callback = "throws"
                    THEN calls' = [calls EXCEPT ![c] =
                            StaggeredHead([s2 EXCEPT !.processed = @ + 1])]
                    ELSE calls' = [calls EXCEPT ![c] = [s2 EXCEPT !.pc = "sleep"]]
    /\ UNCHANGED <<now, saveVars, probe, service, memoryCache, detector>>

\* the 300 ms timer of line 425 fires
StaggeredTimer(c) ==
    /\ calls[c].pc = "sleep"
    /\ calls' = [calls EXCEPT ![c] = StaggeredHead(calls[c])]
    /\ UNCHANGED <<now, saveVars, probe, service, memoryCache, detector>>

(***************************************************************************)
(* ScraperService.liveSearch(keyword) and liveCategory(category)           *)
(* (ScraperService.js 389-478): each awaits one call of the scraper inside *)
(* a try and returns an object.  probe holds what the method returned.     *)
(***************************************************************************)
\* a method that lets the error of the scraper pass.  C26 is tested against it.
LiveResultUncaught(s) ==
    [raised |-> Threw(s), success |-> ~Threw(s), news |-> s.output,
     count |-> Len(s.output), error |-> ""]

\* the object the method returns for a call of the scraper that has returned
\* its list (lines 411-417, 460-466) or has thrown (lines 419-427, 468-476)
LiveResult(s) ==
    IF Threw(s)
    THEN [raised |-> FALSE, success |-> FALSE, news |-> <<>>, count |-> 0,
          error |-> IF KeywordRejected(s.keyword)
                    THEN "Arama kelimesi en az 2 karakter olmalidir" ELSE "error"]
    ELSE [raised |-> FALSE, success |-> TRUE, news |-> s.output, count |-> Len(s.output),
          error |-> ""]

\* the await of rssScraper.liveSearch(keyword) or of
\* rssScraper.scrapeByCategory(category) ends, and the method of the service
\* returns.  The service calls the class of RSSNewsScraper.js with the defaults
\* of the options, and scrapeByCategory with no keyword.
ServiceLiveReturns(c) ==
    /\ probe.op = "none"
    /\ calls[c].pc \in {"done", "threw"}
    /\ calls[c].this = "sites"
    /\ \/ /\ calls[c].kind = "liveSearch"
          /\ calls[c].limit = DefaultLimit /\ calls[c].maxSources = DefaultMaxSources
          /\ calls[c].includeGoogleNews
       \/ /\ calls[c].kind = "scrapeByCategory"
          /\ calls[c].keyword = Null /\ calls[c].limit = DefaultCategoryLimit
    /\ probe' = [op |-> IF calls[c].kind = "liveSearch" THEN "liveSearch" ELSE "liveCategory",
                 call |-> c, value |-> LiveResult(calls[c])]
    /\ UNCHANGED <<now, calls, saveVars, service, memoryCache, detector>>

(***************************************************************************)
(* Persistence (ScraperService.js 170-245 and 565-585, the News schema).   *)
(* store is the News collection: a set of documents.  savers[p] holds the  *)
(* arguments and the local variables of one call of saveNews, with the     *)
(* step of News.updateOne it waits for.  nextId is the next _id.  history   *)
(* lists the calls of saveNews that have returned, where they are          *)
(* observed: the array, the result and the collection at the return.       *)
(***************************************************************************)
SaverIds == {1, 2}

\* the calls of saveNews one caller makes
MaxRuns == 2

\* how far the clock runs
MaxTicks == 1

DayMinutes == 1440

DefaultDaysOld == 30

DuplicateKey == 11000

NoError == [code |-> 0, message |-> "none"]

DuplicateKeyError == [code |-> DuplicateKey, message |-> "E11000 duplicate key error collection"]

\* the errors of News.updateOne that are not a violation of the unique index
OtherErrors == {[code |-> 0, message |-> "connection timed out"],
                [code |-> 2, message |-> "Cast to date failed"]}

UrlA == [origin |-> NtvOrigin, path |-> "/a1"]

UrlB == [origin |-> SabahOrigin, path |-> "/e6"]

\* an item of newsArray with the fields saveNews reads; scrapedAt is NoDate
\* when the item has none
NewsItem(title, url, publishedAt, scrapedAt) ==
    [title |-> title, summary |-> DescPetrol, url |-> url, imageUrl |-> Null,
     category |-> "Ekonomi", source |-> <<"N","T","V">>, keywords |-> <<>>,
     publishedAt |-> publishedAt, scrapedAt |-> scrapedAt]

ItemA == NewsItem(TitlePetrolFiyati, UrlA, T0 - 2000, NoDate)

\* the article of ItemA as a later fetch finds it
ItemARetitled == NewsItem(TitleBrentPetrol, UrlA, T0 - 2000, T0)

ItemB == NewsItem(TitleVaril, UrlB, T0 - 30, NoDate)

\* the arrays saveNews is called with
NewsArrays == {<<>>, <<ItemA>>, <<ItemB, ItemARetitled>>, <<ItemA, ItemARetitled>>}

NoDoc ==
    [id |-> 0, title |-> <<>>, summary |-> <<>>, url |-> NullUrl, imageUrl |-> Null,
     category |-> "", source |-> <<>>, keywords |-> <<>>, publishedAt |-> NoDate,
     scrapedAt |-> NoDate, isActive |-> FALSE, createdAt |-> NoDate, updatedAt |-> NoDate]

\* a $set that holds createdAt as well.  C7 is tested against it.
SetFieldsAndCreatedAt(doc, newsItem, at) ==
    [doc EXCEPT !.title = newsItem.title,
                !.summary = newsItem.summary,
                !.url = newsItem.url,
                !.imageUrl = newsItem.imageUrl,
                !.category = newsItem.category,
                !.source = newsItem.source,
                !.keywords = newsItem.keywords,
                !.publishedAt = newsItem.publishedAt,
                !.scrapedAt = IF newsItem.scrapedAt = NoDate THEN at ELSE newsItem.scrapedAt,
                !.isActive = TRUE,
                !.createdAt = at,
                !.updatedAt = at]

\* the $set of saveNews, and the updatedAt the schema's timestamps add to it
SetFields(doc, newsItem, at) ==
    [doc EXCEPT !.title = newsItem.title,
                !.summary = newsItem.summary,
                !.url = newsItem.url,
                !.imageUrl = newsItem.imageUrl,
                !.category = newsItem.category,
                !.source = newsItem.source,
                !.keywords = newsItem.keywords,
                !.publishedAt = newsItem.publishedAt,
                !.scrapedAt = IF newsItem.scrapedAt = NoDate THEN at ELSE newsItem.scrapedAt,
                !.isActive = TRUE,
                !.updatedAt = at]

\* the document an upsert inserts: the filter's url, the $set and the
\* $setOnInsert
Inserted(newsItem, at, id) ==
    SetFields([NoDoc EXCEPT !.id = id, !.url = newsItem.url, !.createdAt = at], newsItem, at)

Matching(docs, url) == {d \in docs : d.url = url}

\* News.updateOne({url}, {$set, $setOnInsert}, {upsert: true}) applied to the
\* collection: the document with the url is updated, or one is inserted
UpdateOne(docs, newsItem, at, id) ==
    LET m == Matching(docs, newsItem.url)
    IN  IF m = {}
        THEN [docs |-> docs \cup {Inserted(newsItem, at, id)}, upsertedCount |-> 1]
        ELSE LET d == CHOOSE x \in m : \A y \in m : x.id <= y.id
             IN  [docs |-> (docs \ {d}) \cup {SetFields(d, newsItem, at)}, upsertedCount |-> 0]

NoResult == [saved |-> 0, duplicates |-> 0, errors |-> <<>>]

\* a caught error that counts as nothing.  C6 is tested against it.
CaughtSilently(result, newsItem, error) ==
    IF error.code = DuplicateKey THEN [result EXCEPT !.duplicates = @ + 1] ELSE result

\* a catch that takes a violation of the unique index for an error.  C5 is
\* tested against it.
CaughtAsError(result, newsItem, error) ==
    [result EXCEPT !.errors = Append(@, [url |-> newsItem.url, error |-> error.message])]

\* saveNews 228-239: the catch of one item
Caught(result, newsItem, error) ==
    IF error.code = DuplicateKey
    THEN [result EXCEPT !.duplicates = @ + 1]
    ELSE [result EXCEPT !.errors = Append(@, [url |-> newsItem.url, error |-> error.message])]

\* a count that takes every upsert for an insert.  C4 is tested against it.
CountedAsSaved(result, updateResult) == [result EXCEPT !.saved = @ + 1]

\* saveNews 222-226
Counted(result, updateResult) ==
    IF updateResult.upsertedCount > 0
    THEN [result EXCEPT !.saved = @ + 1]
    ELSE [result EXCEPT !.duplicates = @ + 1]

\* thrown and found are history: the errors updateOne has thrown in this call
\* and the document the last upsert met
IdleSaver ==
    [pc |-> "idle", newsArray |-> <<>>, k |-> 0, at |-> NoDate, sawNone |-> FALSE,
     result |-> NoResult, runs |-> 0, thrown |-> <<>>, found |-> NoDoc]

\* updateOne is called for item k: new Date() is read here
Issue(s, k, at) == [s EXCEPT !.pc = "lookup", !.k = k, !.at = at]

Return(s) == [s EXCEPT !.pc = "done"]

\* the loop of saveNews after the item k
Continue(s, at) == IF s.k < Len(s.newsArray) THEN Issue(s, s.k + 1, at) ELSE Return(s)

(***************************************************************************)
(* saveNews(newsArray), for a caller that makes at most maxRuns calls       *)
(***************************************************************************)
SaveNewsCall(p, maxRuns) ==
    /\ savers[p].pc \in {"idle", "done"}
    /\ savers[p].runs < maxRuns
    /\ \E newsArray \in NewsArrays :
        LET s == [IdleSaver EXCEPT !.newsArray = newsArray, !.runs = savers[p].runs + 1]
        IN  savers' = [savers EXCEPT ![p] =
                IF Len(newsArray) = 0 THEN Return(s) ELSE Issue(s, 1, now)]
    /\ UNCHANGED <<now, calls, probe, store, nextId, service, memoryCache, detector>>

\* the server looks for the document of the filter
UpsertLookup(p) ==
    /\ savers[p].pc = "lookup"
    /\ savers' = [savers EXCEPT ![p].pc = "write",
                                ![p].sawNone =
                                    Matching(store, savers[p].newsArray[savers[p].k].url) = {}]
    /\ UNCHANGED <<now, calls, probe, store, nextId, service, memoryCache, detector>>

\* the server writes and updateOne returns: lines 222-226
UpsertApplied(p) ==
    /\ savers[p].pc = "write"
    /\ LET s == savers[p]
           newsItem == s.newsArray[s.k]
           m == Matching(store, newsItem.url)
           updateResult == UpdateOne(store, newsItem, s.at, nextId)
       IN  /\ store' = updateResult.docs
           /\ nextId' = IF updateResult.upsertedCount > 0 THEN nextId + 1 ELSE nextId
           /\ savers' = [savers EXCEPT ![p] =
                Continue([s EXCEPT !.result = Counted(s.result, updateResult),
                                   !.found = IF m = {} THEN NoDoc
                                             ELSE CHOOSE x \in m : \A y \in m : x.id <= y.id],
                         now)]
    /\ UNCHANGED <<now, calls, probe, service, memoryCache, detector>>

\* the server found no document, and by the time it inserts another call has
\* inserted one with the url: the unique index on url rejects the insert and
\* updateOne throws E11000
UpsertConflict(p) ==
    /\ savers[p].pc = "write"
    /\ savers[p].sawNone
    /\ Matching(store, savers[p].newsArray[savers[p].k].url) # {}
    /\ LET s == savers[p]
           newsItem == s.newsArray[s.k]
       IN  savers' = [savers EXCEPT ![p] =
                Continue([s EXCEPT !.result = Caught(s.result, newsItem, DuplicateKeyError),
                                   !.thrown = Append(@, [url |-> newsItem.url,
                                                         error |-> DuplicateKeyError]),
                                   !.found = NoDoc],
                         now)]
    /\ UNCHANGED <<now, calls, probe, store, nextId, service, memoryCache, detector>>

\* updateOne throws another error: lines 232-238
UpsertFails(p) ==
    /\ savers[p].pc \in {"lookup", "write"}
    /\ \E error \in OtherErrors :
        LET s == savers[p]
            newsItem == s.newsArray[s.k]
        IN  savers' = [savers EXCEPT ![p] =
                Continue([s EXCEPT !.result = Caught(s.result, newsItem, error),
                                   !.thrown = Append(@, [url |-> newsItem.url, error |-> error]),
                                   !.found = NoDoc],
                         now)]
    /\ UNCHANGED <<now, calls, probe, store, nextId, service, memoryCache, detector>>

(***************************************************************************)
(* cleanupOldNews(daysOld = 30, hardDelete = false)                        *)
(***************************************************************************)
CleanupOldNews ==
    /\ \E daysOld \in {1, DefaultDaysOld}, hardDelete \in BOOLEAN :
        LET cutoffDate == now - daysOld * DayMinutes
        IN  store' = IF hardDelete
                     THEN {d \in store : ~(d.publishedAt < cutoffDate)}
                     ELSE {IF d.publishedAt < cutoffDate
                           THEN [d EXCEPT !.isActive = FALSE, !.updatedAt = now]
                           ELSE d : d \in store}
    /\ store' # store
    /\ UNCHANGED <<now, calls, probe, savers, nextId, service, memoryCache, detector>>

Tick ==
    /\ now < T0 + MaxTicks
    /\ now' = now + 1
    /\ UNCHANGED <<calls, probe, store, savers, nextId, service, memoryCache, detector>>

(***************************************************************************)
(* The scraping service (ScraperService.js 24-124 and 489-553).  service   *)
(* is the one ScraperService of the process: its isRunning, its stats and, *)
(* for each caller (1 the API, 2 the cron job), the call of scrapeAll or   *)
(* scrapeWithKeyword the caller has made: the await it is suspended at and *)
(* its results.  The saveNews of a call is the saver of the caller.  What  *)
(* the scraper fetches is not computed here: its call returns one of       *)
(* NewsArrays or raises.                                                   *)
(***************************************************************************)
\* the calls one caller makes
MaxScrapes == 2

AlreadyRunningMessage == "Scraping zaten devam ediyor"

\* a service that takes every call.  C24 is tested against it.
AlreadyRunningNever(svc) == FALSE

\* if (this.isRunning)
AlreadyRunning(svc) == svc.isRunning

\* a call whose error leaves isRunning as it is.  C25 is tested against it.
FinallyAfterSuccess(svc, c, results, t) ==
    [svc EXCEPT !.isRunning = IF results.success THEN FALSE ELSE @,
                !.stats = [lastRun |-> t,
                           totalScraped |-> @.totalScraped + results.totalNews,
                           totalSaved |-> @.totalSaved + results.savedNews],
                !.run[c].pc = "done",
                !.run[c].results = results]

\* the finally block and the return of scrapeAll (lines 103-123) and of
\* scrapeWithKeyword (lines 539-552)
Finally(svc, c, results, t) ==
    [svc EXCEPT !.isRunning = FALSE,
                !.stats = [lastRun |-> t,
                           totalScraped |-> @.totalScraped + results.totalNews,
                           totalSaved |-> @.totalSaved + results.savedNews],
                !.run[c].pc = "done",
                !.run[c].results = results]

\* the catch block: results.success = false; results.errors.push(...)
Failed(results, message) ==
    [results EXCEPT !.success = FALSE, !.errors = Append(@, message)]

\* a call of one of the two methods up to its first await: the early return
\* while a call is running, or isRunning = true and the call of the scraper
Enter(c, kind, awaits) ==
    LET r == service.run[c]
        results == [success |-> TRUE, message |-> "", totalNews |-> 0, savedNews |-> 0,
                    duplicates |-> 0, errors |-> <<>>]
        entered == [service EXCEPT !.run[c] = [pc |-> "fetch", kind |-> kind,
                                                 scrapes |-> r.scrapes + 1,
                                                 results |-> results],
                                   !.isRunning = TRUE]
    IN  /\ r.pc \in {"idle", "done"}
        /\ r.scrapes < MaxScrapes
        /\ service' =
            IF AlreadyRunning(service)
            THEN [service EXCEPT !.run[c] =
                    [pc |-> "done", kind |-> kind, scrapes |-> r.scrapes + 1,
                     results |-> [success |-> FALSE, message |-> AlreadyRunningMessage,
                                  totalNews |-> 0, savedNews |-> 0, duplicates |-> 0,
                                  errors |-> <<>>]]]
            ELSE IF awaits THEN entered
            ELSE Finally(entered, c,
                         Failed(results, "rssScraper.searchByKeyword is not a function"), now)
        /\ UNCHANGED <<now, calls, probe, store, savers, nextId, memoryCache, detector>>

\* scrapeAll(), up to its await of scrapeAllStaggered
ScrapeAllCall(c) == Enter(c, "scrapeAll", TRUE)

\* scrapeWithKeyword(keyword), up to its await of searchByKeyword.  The class of
\* RSSNewsScraper.js, which the method loads, has no searchByKeyword: the call
\* raises at once, and catch and finally run before the method is left.  The
\* class of routes/index.js has the method (line 657): with it the call awaits.
ScrapeWithKeywordCall(c) == \E awaits \in BOOLEAN : Enter(c, "scrapeWithKeyword", awaits)

\* the await of the scraper ends: with an error, with no news, or with news,
\* which are handed to saveNews (lines 88-94 and 523-529)
FetchReturns(c) ==
    /\ service.run[c].pc = "fetch"
    /\ \E raised \in BOOLEAN, news \in NewsArrays :
        LET results == service.run[c].results
        IN  IF raised
            THEN /\ news = <<>>
                 /\ service' = Finally(service, c, Failed(results, "fetch failed"), now)
                 /\ UNCHANGED savers
            ELSE IF Len(news) > 0
            THEN /\ service' = [service EXCEPT !.run[c].pc = "save"]
                 /\ savers' = [savers EXCEPT ![c] =
                        Issue([IdleSaver EXCEPT !.newsArray = news], 1, now)]
            ELSE /\ service' = Finally(service, c, results, now)
                 /\ UNCHANGED savers
    /\ UNCHANGED <<now, calls, probe, store, nextId, memoryCache, detector>>

\* saveNews has returned: lines 91-93 and 526-528, then finally
SaveReturns(c) ==
    /\ service.run[c].pc = "save"
    /\ savers[c].pc = "done"
    /\ LET saveResult == savers[c].result
           results == [service.run[c].results EXCEPT
                            !.totalNews = Len(savers[c].newsArray),
                            !.savedNews = saveResult.saved,
                            !.duplicates = saveResult.duplicates]
       IN  service' = Finally(service, c, results, now)
    /\ savers' = [savers EXCEPT ![c] = IdleSaver]
    /\ UNCHANGED <<now, calls, probe, store, nextId, memoryCache, detector>>

(***************************************************************************)
(* MemoryCache (utils/memoryCache.js 9-195).  memoryCache.cache is the Map *)
(* of the object, its entries in the order of insertion, each with its     *)
(* key; memoryCache.stats is stats.  A key is a string, written as the     *)
(* sequence of its characters.  probe holds the last call, what it         *)
(* returned and, for get and has, the entry that this.cache.get(key) gave  *)
(* it, <<>> when it gave none.  In the specification of the cache a unit   *)
(* of now is one second, the unit of ttl: Date.now() + ttl * 1000 is       *)
(* now + ttl.                                                              *)
(***************************************************************************)
\* options.maxSize of the cache that is modelled
maxSize == 2

\* the calls of set and of get that are modelled, and the seconds that pass
MaxSets == 3

MaxGets == 2

MaxSeconds == 2

\* null
NoValue == "null"

\* the keys and the patterns the callers use: the empty string is one of them
CacheKeys == {<<>>, <<"a">>, <<"a","b">>}

CachePatterns == {<<"*">>, <<"a","*">>, <<"a">>}

\* the place of a key in the Map, 0 when it has none
Place(cache, key) ==
    IF \E i \in 1..Len(cache) : cache[i].key = key
    THEN CHOOSE i \in 1..Len(cache) : cache[i].key = key
    ELSE 0

\* this.cache.delete(key), for the keys of a set
Deleted(cache, keys) == FilterIdx(cache, {i \in 1..Len(cache) : cache[i].key \notin keys}, 1)

\* a check that finds no entry expired.  C28 is tested against it.
ExpiredNever(entry, t) == FALSE

\* entry.expiresAt && Date.now() > entry.expiresAt
Expired(entry, t) == entry.expiresAt # NoDate /\ t > entry.expiresAt

\* evictLRU(): the first entry, in the order of the Map, of the smallest
\* accessedAt is deleted, if (oldestKey)
evictLRU(mc) ==
    IF mc.cache = <<>> THEN mc
    ELSE LET oldest == CHOOSE i \in 1..Len(mc.cache) :
                            /\ \A j \in 1..Len(mc.cache) :
                                    mc.cache[i].accessedAt <= mc.cache[j].accessedAt
                            /\ \A j \in 1..(i - 1) :
                                    mc.cache[j].accessedAt > mc.cache[i].accessedAt
             oldestKey == mc.cache[oldest].key
         IN  IF Falsy(oldestKey) THEN mc
             ELSE [mc EXCEPT !.cache = Deleted(@, {oldestKey}), !.stats.evictions = @ + 1]

\* set(key, value, ttl)
CacheSet ==
    /\ memoryCache.stats.sets < MaxSets
    /\ \E key \in CacheKeys, ttl \in {0, 1} :
        LET value == "v"
            mc == IF Len(memoryCache.cache) >= maxSize THEN evictLRU(memoryCache)
                  ELSE memoryCache
            entry == [key |-> key, value |-> value,
                      expiresAt |-> IF ttl > 0 THEN now + ttl ELSE NoDate,
                      accessedAt |-> now]
            at == Place(mc.cache, key)
        IN  /\ memoryCache' = [mc EXCEPT !.cache = IF at = 0 THEN Append(@, entry)
                                                  ELSE [@ EXCEPT ![at] = entry],
                                         !.stats.sets = @ + 1]
            /\ probe' = [op |-> "set", key |-> key, value |-> "true", entry |-> <<>>]
    /\ UNCHANGED <<now, calls, saveVars, service, detector>>

\* get(key)
CacheGet ==
    /\ memoryCache.stats.hits + memoryCache.stats.misses < MaxGets
    /\ \E key \in CacheKeys :
        LET at == Place(memoryCache.cache, key)
        IN  IF at = 0
            THEN /\ memoryCache' = [memoryCache EXCEPT !.stats.misses = @ + 1]
                 /\ probe' = [op |-> "get", key |-> key, value |-> NoValue,
                              entry |-> <<>>]
            ELSE IF Expired(memoryCache.cache[at], now)
            THEN /\ memoryCache' = [memoryCache EXCEPT !.cache = Deleted(@, {key}),
                                                       !.stats.misses = @ + 1]
                 /\ probe' = [op |-> "get", key |-> key, value |-> NoValue,
                              entry |-> <<memoryCache.cache[at]>>]
            ELSE /\ memoryCache' = [memoryCache EXCEPT !.cache[at].accessedAt = now,
                                                       !.stats.hits = @ + 1]
                 /\ probe' = [op |-> "get", key |-> key,
                              value |-> memoryCache.cache[at].value,
                              entry |-> <<memoryCache.cache[at]>>]
    /\ UNCHANGED <<now, calls, saveVars, service, detector>>

\* has(key)
CacheHas ==
    /\ \E key \in CacheKeys :
        LET at == Place(memoryCache.cache, key)
        IN  IF at = 0
            THEN /\ probe' = [op |-> "has", key |-> key, value |-> "false",
                              entry |-> <<>>]
                 /\ UNCHANGED memoryCache
            ELSE IF Expired(memoryCache.cache[at], now)
            THEN /\ memoryCache' = [memoryCache EXCEPT !.cache = Deleted(@, {key})]
                 /\ probe' = [op |-> "has", key |-> key, value |-> "false",
                              entry |-> <<memoryCache.cache[at]>>]
            ELSE /\ probe' = [op |-> "has", key |-> key, value |-> "true",
                              entry |-> <<memoryCache.cache[at]>>]
                 /\ UNCHANGED memoryCache
    /\ UNCHANGED <<now, calls, saveVars, service, detector>>

\* delete(key)
CacheDelete ==
    /\ \E key \in CacheKeys :
        LET at == Place(memoryCache.cache, key)
        IN  /\ memoryCache' = IF at = 0 THEN memoryCache
                              ELSE [memoryCache EXCEPT !.cache = Deleted(@, {key}),
                                                       !.stats.deletes = @ + 1]
            /\ probe' = [op |-> "delete", key |-> key,
                         value |-> IF at = 0 THEN "false" ELSE "true", entry |-> <<>>]
    /\ UNCHANGED <<now, calls, saveVars, service, detector>>

\* deletePattern(pattern): the keys that match '^' + pattern + '$' with every
\* '*' of the pattern written '.*'
CacheDeletePattern ==
    /\ \E pattern \in CachePatterns :
        LET RECURSIVE matches(_, _)
            matches(pat, key) ==
                IF pat = <<>> THEN key = <<>>
                ELSE IF Head(pat) = "*"
                THEN \E n \in 0..Len(key) : matches(Tail(pat), SubSeq(key, n + 1, Len(key)))
                ELSE key # <<>> /\ Head(key) = Head(pat) /\ matches(Tail(pat), Tail(key))
            keys == {memoryCache.cache[i].key : i \in 1..Len(memoryCache.cache)}
            hit == {key \in keys : matches(pattern, key)}
        IN  /\ memoryCache' = [memoryCache EXCEPT !.cache = Deleted(@, hit),
                                                  !.stats.deletes = @ + Cardinality(hit)]
            /\ probe' = [op |-> "deletePattern", key |-> pattern,
                         value |-> Cardinality(hit), entry |-> <<>>]
    /\ UNCHANGED <<now, calls, saveVars, service, detector>>

\* clear()
CacheClear ==
    /\ memoryCache' = [memoryCache EXCEPT !.cache = <<>>,
                                          !.stats.deletes = @ + Len(memoryCache.cache)]
    /\ probe' = [op |-> "clear", key |-> <<>>, value |-> NoValue, entry |-> <<>>]
    /\ UNCHANGED <<now, calls, saveVars, service, detector>>

\* cleanup(), which the timer of startCleanup calls
CacheCleanup ==
    /\ memoryCache' = [memoryCache EXCEPT !.cache =
            Deleted(@, {@[i].key : i \in {j \in 1..Len(@) : Expired(@[j], now)}})]
    /\ probe' = [op |-> "cleanup", key |-> <<>>, value |-> NoValue, entry |-> <<>>]
    /\ UNCHANGED <<now, calls, saveVars, service, detector>>

\* a second passes
CacheTick ==
    /\ now < T0 + MaxSeconds
    /\ now' = now + 1
    /\ UNCHANGED <<calls, saveVars, probe, service, memoryCache, detector>>

(***************************************************************************)
(* suspiciousActivityDetector (middleware/security.js 202-249).            *)
(* detector.suspiciousIPs is the Map of the module, a function over the    *)
(* IPs that have a record; detector.pending counts, by IP, the requests    *)
(* the detector passed on with next() whose response is not sent yet, and  *)
(* detector.sent the responses of a 4xx status sent to the IP through the  *)
(* res.send the detector installed.  probe holds the last request and its  *)
(* answer, or the last response.  In the specification of the detector a   *)
(* unit of now is one millisecond and the clock moves five minutes a step. *)
(***************************************************************************)
MAX_SUSPICIOUS_ATTEMPTS == 10

BLOCK_DURATION == 15 * 60 * 1000

\* the step of the clock, five minutes, and the steps it makes
ClockStep == 5 * 60 * 1000

MaxSteps == 4

\* the requests passed on and not answered, and the 4xx responses, of a run
MaxPending == 2

MaxSent == 11

IPs == {"10.0.0.1", "unknown"}

StatusCodes == {200, 400, 499, 500}

NoRequests == [ip \in IPs |-> 0]

Sum(f) == f["10.0.0.1"] + f["unknown"]

\* a detector that lets every request of a blocked IP through.  C30 is
\* tested against it.
StillBlockedNever(record, t) == FALSE

\* record && record.blocked, and timeSinceBlock < BLOCK_DURATION
StillBlocked(record, t) == record.blocked /\ t - record.blockedAt < BLOCK_DURATION

\* suspiciousIPs.set(ip, current)
MapSet(m, ip, current) == [i \in DOMAIN m \cup {ip} |-> IF i = ip THEN current ELSE m[i]]

\* suspiciousIPs.delete(ip)
MapDelete(m, ip) == [i \in DOMAIN m \ {ip} |-> m[i]]

\* suspiciousActivityDetector(req, res, next): a request of an IP arrives
RequestArrives ==
    \E ip \in IPs :
        LET m == detector.suspiciousIPs
            blocked == ip \in DOMAIN m /\ m[ip].blocked
        IN  IF blocked /\ StillBlocked(m[ip], now)
            THEN /\ probe' = [op |-> "request", ip |-> ip, status |-> 429]
                 /\ UNCHANGED <<now, calls, saveVars, service, memoryCache, detector>>
            ELSE /\ Sum(detector.pending) < MaxPending
                 /\ detector' = [detector EXCEPT
                        !.suspiciousIPs = IF blocked THEN MapDelete(@, ip) ELSE @,
                        !.pending[ip] = @ + 1]
                 /\ probe' = [op |-> "request", ip |-> ip, status |-> 0]
                 /\ UNCHANGED <<now, calls, saveVars, service, memoryCache>>

\* res.send(body) of a request that was passed on: a later handler answers
ResponseSent ==
    \E ip \in IPs, statusCode \in StatusCodes :
        LET m == detector.suspiciousIPs
            got == IF ip \in DOMAIN m THEN m[ip]
                   ELSE [count |-> 0, lastAttempt |-> now, blocked |-> FALSE,
                         blockedAt |-> NoDate]
            counted == [got EXCEPT !.count = @ + 1, !.lastAttempt = now]
            current == IF counted.count >= MAX_SUSPICIOUS_ATTEMPTS
                       THEN [counted EXCEPT !.blocked = TRUE, !.blockedAt = now]
                       ELSE counted
        IN  /\ detector.pending[ip] > 0
            /\ IF statusCode >= 400 /\ statusCode < 500
               THEN /\ Sum(detector.sent) < MaxSent
                    /\ detector' = [detector EXCEPT
                            !.suspiciousIPs = MapSet(@, ip, current),
                            !.pending[ip] = @ - 1,
                            !.sent[ip] = @ + 1]
               ELSE detector' = [detector EXCEPT !.pending[ip] = @ - 1]
            /\ probe' = [op |-> "response", ip |-> ip, status |-> statusCode]
            /\ UNCHANGED <<now, calls, saveVars, service, memoryCache>>

\* five minutes pass
DetectorTick ==
    /\ now < T0 + MaxSteps * ClockStep
    /\ now' = now + ClockStep
    /\ UNCHANGED <<calls, saveVars, probe, service, memoryCache, detector>>

vars == <<now, calls, store, savers, nextId, history, probe, service, memoryCache, detector>>

SearchInit ==
    /\ now = T0
    /\ calls = [c \in CallIds |-> IdleCall]
    /\ store = {}
    /\ savers = [p \in SaverIds |-> IdleSaver]
    /\ nextId = 1
    /\ history = <<>>
    /\ probe = [op |-> "none"]
    /\ service = [isRunning |-> FALSE,
                  stats |-> [lastRun |-> NoDate, totalScraped |-> 0, totalSaved |-> 0],
                  run |-> [c \in SaverIds |->
                            [pc |-> "idle", kind |-> "none", scrapes |-> 0,
                             results |-> [success |-> TRUE, message |-> "", totalNews |-> 0,
                                          savedNews |-> 0, duplicates |-> 0,
                                          errors |-> <<>>]]]]
    /\ memoryCache = [cache |-> <<>>,
                      stats |-> [hits |-> 0, misses |-> 0, sets |-> 0, deletes |-> 0,
                                 evictions |-> 0]]
    /\ detector = [suspiciousIPs |-> <<>>, pending |-> NoRequests, sent |-> NoRequests]

\* one aggregation call at a time
SearchNext ==
    \/ LiveSearchCall(1)
    \/ FeedSettles(1)
    \/ BatchResolved(1)
    \/ GoogleTermDone(1)
    \/ GoogleAwaited(1)
    \/ ScrapeByCategoryCall(1)
    \/ ScrapeAllStaggeredCall(1)
    \/ StaggeredResolved(1)
    \/ StaggeredTimer(1)
    \/ ServiceLiveReturns(1)

SpecSearch == SearchInit /\ [][SearchNext]_vars

\* two aggregation calls at a time, their steps interleaved in every way: a
\* search of the sport feeds with a search-engine channel whose requests all
\* answer, beside a search of the same feeds by another scraper, a
\* scrapeByCategory of the sport feeds or a scrapeAllStaggered whose feeds all
\* answer
ConcurrentNext ==
    \/ /\ LiveSearchCall(1)
       /\ calls'[1] = [calls'[1] EXCEPT !.this = "sites", !.keyword = PetrolKeyword,
                                        !.limit = DefaultLimit, !.includeGoogleNews = TRUE]
    \/ FeedSettles(1)
    \/ BatchResolved(1)
    \/ /\ GoogleTermDone(1)
       /\ calls'[1].google.errors = 0
    \/ GoogleAwaited(1)
    \/ /\ LiveSearchCall(2)
       /\ calls'[2] = [calls'[2] EXCEPT !.this = "routes", !.keyword = PetrolKeyword,
                                        !.limit = 1, !.includeGoogleNews = FALSE]
    \/ /\ ScrapeByCategoryCall(2)
       /\ calls'[2] = [calls'[2] EXCEPT !.this = "sites", !.category = "Spor",
                                        !.keyword = Null, !.limit = DefaultCategoryLimit]
    \/ /\ ScrapeAllStaggeredCall(2)
       /\ calls'[2] = [calls'[2] EXCEPT !.this = "sites", !.callback = "returns"]
    \/ /\ FeedSettles(2)
       /\ calls[2].kind = "scrapeAllStaggered" => calls'[2].promises[1].ok
    \/ BatchResolved(2)
    \/ StaggeredResolved(2)
    \/ StaggeredTimer(2)

SpecConcurrent == SearchInit /\ [][ConcurrentNext]_vars

\* two callers of saveNews with one call each, the cleanup and the clock
SaveNext ==
    \/ \E p \in SaverIds : SaveNewsCall(p, 1) /\ UNCHANGED history
    \/ \E p \in SaverIds : UpsertLookup(p) /\ UNCHANGED history
    \/ \E p \in SaverIds : UpsertApplied(p) /\ UNCHANGED history
    \/ \E p \in SaverIds : UpsertConflict(p) /\ UNCHANGED history
    \/ \E p \in SaverIds : UpsertFails(p) /\ UNCHANGED history
    \/ CleanupOldNews /\ UNCHANGED history
    \/ Tick /\ UNCHANGED history

SpecSave == SearchInit /\ [][SaveNext]_vars

\* the return of a call of saveNews by caller 1 is added to history
Observed ==
    history' = IF savers'[1].pc = "done" /\ savers'[1] # savers[1]
               THEN Append(history, [newsArray |-> savers'[1].newsArray,
                                     result |-> savers'[1].result,
                                     docs |-> store'])
               ELSE history

\* one caller of saveNews that calls it again and again, every upsert of which
\* succeeds, and the clock
TwiceNext ==
    \/ SaveNewsCall(1, MaxRuns) /\ Observed
    \/ UpsertLookup(1) /\ Observed
    \/ UpsertApplied(1) /\ Observed
    \/ Tick /\ Observed

SpecTwice == SearchInit /\ [][TwiceNext]_vars

(***************************************************************************)
(* Single applications of the methods that read nothing but their          *)
(* arguments.  probe holds the arguments and the value of the last one.    *)
(***************************************************************************)
\* scrapeFromFeed(feedKey, feedInfo, keyword) for a feed of up to two entries
ScrapeFromFeedApplied ==
    /\ probe.op = "none"
    /\ LET titles == <<TitlePetrolFiyati, TitlePiyasalar, TitleKisa, TitleCasino,
                       TitleCopyright, Null>>
           links == <<AbsLink(CnnOrigin, "/p1"), RelLink("/p2"), NoLink,
                      [kind |-> "bad", origin |-> "", path |-> "//"]>>
           texts == <<Null, DescPetrolBrent, DescPetrol>>
           \* the entries: every title, with the description in each of the
           \* three fields that are read
           entry(t, x, f) ==
                [RawItem(titles[t], IF f = 1 THEN texts[x] ELSE Null,
                         links[((t + x + f) % 4) + 1], T0 - 30)
                    EXCEPT !.content = IF f = 2 THEN texts[x] ELSE Null,
                           !.summary = IF f = 3 THEN texts[x] ELSE Null]
           entries == {entry(t, x, f) : t \in 1..6, x \in 1..3, f \in 1..3}
           seconds == {entry(1, 1, 1), entry(2, 2, 3), entry(3, 2, 1)}
           feeds == {<<>>} \cup {<<e>> : e \in entries}
                        \cup {<<e, e2>> : e \in entries, e2 \in seconds}
       IN  \E this \in Scrapers, feedKey \in {"ntv_ekonomi"},
              keyword \in {Null, <<>>, PetrolKeyword, FiyatiKeyword},
              parsed \in {ParseFailed} \cup {[ok |-> TRUE, items |-> f] : f \in feeds} :
                probe' = [op |-> "scrapeFromFeed", this |-> this, feedKey |-> feedKey,
                          keyword |-> keyword, parsed |-> parsed,
                          value |-> scrapeFromFeed(this, feedKey, FeedInfo(feedKey), keyword,
                                                   parsed, now)]
    /\ UNCHANGED <<now, calls, saveVars, service, memoryCache, detector>>

\* the scoring of one item by the callback of allResults.map in liveSearch
RelevanceScoreApplied ==
    /\ probe.op = "none"
    /\ \E title \in {TitlePetrolFiyati, TitleBrentPetrol, TitlePiyasalar},
          description \in {<<>>, DescPetrol, DescPetrolBrent},
          age \in {0 - 5, 0, 59, 60, 61, 359, 360, 361, 1439, 1440, 1441, 3000},
          category \in {"Ekonomi", "Google News"},
          keyword \in {PetrolKeyword, FiyatiKeyword} :
        LET item == [title |-> title, description |-> description,
                     url |-> [origin |-> NtvOrigin, path |-> "/a1"],
                     publishedAt |-> now - age, source |-> <<"N","T","V">>,
                     category |-> category,
                     feedKey |-> IF category = "Google News" THEN "google_news"
                                 ELSE "ntv_ekonomi"]
        IN  probe' = [op |-> "relevanceScore", item |-> item, keyword |-> keyword,
                      at |-> now, value |-> RelevanceScore(item, keyword, now)]
    /\ UNCHANGED <<now, calls, saveVars, service, memoryCache, detector>>

\* isValidNews of one item, by either class
IsValidNewsApplied ==
    /\ probe.op = "none"
    /\ \E this \in Scrapers,
          title \in {Null, TitleKisa, TitlePetrolFiyati, TitleCopyright, TitleCasino,
                     <<"A","l","l"," ","R","i","g","h","t","s"," ","R","e","s","e","r","v","e","d"," ","2","0","2","4">>,
                     <<"M","e","r","k","e","z"," ","B","a","n","k","a","s","i"," ","f","a","i","z"," ","k","a","r","a","r","i","n","i"," ","a","c","i","k","l","a","d","i">>,
                     <<"A","n","a"," ","S","a","y","f","a"," ","h","a","b","e","r","l","e","r","i"," ","b","u","r","a","d","a">>,
                     <<"h","a","b","e","r","i","n"," ","d","e","v","a","m","i"," ","i","c","i","n"," ","r","e","a","d"," ","m","o","r","e">>,
                     <<"C","o","p","y","r","i","g","h","t">>},
          text \in {Null, DescPetrol,
                    <<"c","o","p","y","r","i","g","h","t"," ","2","0","2","4"," ","a","l","l"," ","r","i","g","h","t","s"," ","r","e","s","e","r","v","e","d">>,
                    <<"s","o","s","y","a","l"," ","m","e","d","y","a"," ","c","a","s","i","n","o">>},
          field \in {"contentSnippet", "content"} :
        LET item == [title |-> title,
                     contentSnippet |-> IF field = "contentSnippet" THEN text ELSE Null,
                     content |-> IF field = "content" THEN text ELSE Null]
        IN  probe' = [op |-> "isValidNews", this |-> this, item |-> item,
                      value |-> isValidNews(this, item)]
    /\ UNCHANGED <<now, calls, saveVars, service, memoryCache, detector>>

\* detectCategory of one title and description
DetectCategoryApplied ==
    /\ probe.op = "none"
    /\ \E title \in {TitlePetrolFiyati, TitleKisa,
                     <<"D","o","l","a","r"," ","v","e"," ","b","o","r","s","a"," ","y","u","k","s","e","l","d","i">>,
                     <<"D","e","r","b","i"," ","o","n","c","e","s","i"," ","d","o","l","a","r">>,
                     <<"M","e","c","l","i","s"," ","t","o","p","l","a","n","d","i"," ","s","o","n">>,
                     <<"H","a","v","a"," ","b","u","g","u","n"," ","y","a","g","m","u","r","l","u">>,
                     <<"S","o","n"," ","d","a","k","i","k","a"," ","g","o","l">>},
          description \in {<<>>, DescPetrol,
                           <<"d","a","k","i","k","a"," ","a","c","i","l"," ","d","u","r","u","m">>,
                           <<"b","o","r","s","a"," ","v","e"," ","p","i","y","a","s","a"," ","h","a","b","e","r","i">>,
                           <<"f","u","t","b","o","l">>,
                           <<"d","a","k","i","k","a"," ","g","e","l","i","s","m","e","s","i">>} :
        probe' = [op |-> "detectCategory", title |-> title, description |-> description,
                  value |-> detectCategory(title, description)]
    /\ UNCHANGED <<now, calls, saveVars, service, memoryCache, detector>>

\* matchesKeyword of one text and keyword
MatchesKeywordApplied ==
    /\ probe.op = "none"
    /\ \E text \in {Null, <<>>, TitlePetrolFiyati, TitlePetrolde,
                    <<"D","o","l","a","r","i","n"," ","y","u","k","s","e","l","i","s","i"," ","d","u","r","m","u","y","o","r">>,
                    <<"E","u","r","o"," ","y","u","k","s","e","l","d","i">>,
                    <<"d","o","l","a","r","c","i"," ","g","e","l","d","i">>,
                    <<"P","e","t","r","o","l","l","e","r"," ","a","r","t","t","i">>,
                    <<"a","m","e","r","i","k","a","n"," ","d","o","l","a","r","i"," ","d","u","s","t","u">>,
                    <<" "," ","U","S","D","/","T","R","Y"," ","r","e","k","o","r"," ","k","i","r","d","i"," ">>,
                    <<"f","i","y","a","t","i","m"," ","p","e","t","r","o","l","u">>},
          keyword \in {Null, <<>>, PetrolKeyword, FiyatiKeyword,
                       <<"d","o","l","a","r">>, <<"D","o","l","a","r"," ">>, <<"u","s","d">>} :
        probe' = [op |-> "matchesKeyword", text |-> text, keyword |-> keyword,
                  value |-> matchesKeyword(text, keyword)]
    /\ UNCHANGED <<now, calls, saveVars, service, memoryCache, detector>>

PureNext ==
    \/ ScrapeFromFeedApplied
    \/ RelevanceScoreApplied
    \/ IsValidNewsApplied
    \/ DetectCategoryApplied
    \/ MatchesKeywordApplied

SpecPure == SearchInit /\ [][PureNext]_vars

\* the two callers of the service, each awaiting its call before the next.  The
\* errors of updateOne, which saveNews catches item by item, are left to
\* SpecSave.
ServiceNext ==
    \/ \E c \in SaverIds : ScrapeAllCall(c) /\ UNCHANGED history
    \/ \E c \in SaverIds : ScrapeWithKeywordCall(c) /\ UNCHANGED history
    \/ \E c \in SaverIds : FetchReturns(c) /\ UNCHANGED history
    \/ \E c \in SaverIds : UpsertLookup(c) /\ UNCHANGED history
    \/ \E c \in SaverIds : UpsertApplied(c) /\ UNCHANGED history
    \/ \E c \in SaverIds : SaveReturns(c) /\ UNCHANGED history

\* the requests, the responses and the clock of the detector
DetectorNext ==
    \/ RequestArrives
    \/ ResponseSent
    \/ DetectorTick

SpecDetector == SearchInit /\ [][DetectorNext]_vars

\* the calls of the cache, one at a time, in any order
CacheNext ==
    \/ CacheSet
    \/ CacheGet
    \/ CacheHas
    \/ CacheDelete
    \/ CacheDeletePattern
    \/ CacheClear
    \/ CacheCleanup
    \/ CacheTick

SpecCache == SearchInit /\ [][CacheNext]_vars

SpecService == SearchInit /\ [][ServiceNext]_vars

\* every call of the scraper and of the store returns or raises in the end
SpecServiceFair ==
    /\ SpecService
    /\ \A c \in SaverIds :
        /\ WF_vars(FetchReturns(c) /\ UNCHANGED history)
        /\ WF_vars(UpsertLookup(c) /\ UNCHANGED history)
        /\ WF_vars(UpsertApplied(c) /\ UNCHANGED history)
        /\ WF_vars(SaveReturns(c) /\ UNCHANGED history)

(***************************************************************************)
(* Properties of the aggregation calls, checked under SpecSearch           *)
(***************************************************************************)
LiveSearches == {c \in CallIds : calls[c].kind = "liveSearch"}

\* the urls of a list of items
UrlsOf(items) == {items[k].url : k \in 1..Len(items)} \ {NullUrl}

\* the scores liveSearch gives to the merged items of a call that has returned
ScoresOf(s) == [k \in 1..Len(s.allResults) |-> RelevanceScore(s.allResults[k], s.keyword, now)]

\* a step of call c in which Promise.all hands back a chunk
Completes(c) ==
    /\ calls[c].pc = "await"
    /\ calls'[c].pc # "await" \/ calls'[c].i # calls[c].i

\* a step of call c that issues the fetches of a chunk
Issues(c) ==
    /\ calls'[c].pc = "await"
    /\ calls[c].pc # "await" \/ calls'[c].i # calls[c].i

\* the items a step adds to allResults
Added(c) == SubSeq(calls'[c].allResults, Len(calls[c].allResults) + 1, Len(calls'[c].allResults))

\* C1: when liveSearch has returned, every url among the merged items (feeds
\* and search-engine channel) occurs exactly once in the deduplicated list,
\* and the item kept for it carries the highest relevanceScore of the merged
\* items with that url.
C1_DedupKeepsHighest ==
    \A c \in LiveSearches :
        Returned(calls[c]) =>
            LET s == calls[c]
                score == ScoresOf(s)
            IN  \A u \in UrlsOf(s.allResults) :
                    LET kept == {i \in 1..Len(s.unique) : s.unique[i].url = u}
                        same == {k \in 1..Len(s.allResults) : s.allResults[k].url = u}
                    IN  /\ Cardinality(kept) = 1
                        /\ \A i \in kept :
                            /\ \A k \in same : s.unique[i].relevanceScore >= score[k]
                            /\ \E k \in same : s.unique[i].relevanceScore = score[k]

\* a search has returned whose merged items hold one url twice, with two scores
C1_Witness ==
    \E c \in LiveSearches :
        /\ Returned(calls[c])
        /\ \E k1, k2 \in 1..Len(calls[c].allResults) :
            /\ calls[c].allResults[k1].url = calls[c].allResults[k2].url
            /\ calls[c].allResults[k1].url # NullUrl
            /\ ScoresOf(calls[c])[k1] # ScoresOf(calls[c])[k2]
        /\ UrlsOf(calls[c].unique) = UrlsOf(calls[c].allResults)

\* C2: a call of liveSearch has thrown exactly if its keyword is missing, empty
\* or shorter than two characters; with a keyword of two or more characters it
\* does not throw, and what it returns is a list.
C2_KeywordValidation ==
    \A c \in LiveSearches :
        LET short == calls[c].keyword \in {Null, <<>>} \/ Len(calls[c].keyword) < 2
        IN  /\ Threw(calls[c]) <=> short
            /\ short => calls[c].feeds = <<>> /\ calls[c].google = NoGoogle
            /\ Returned(calls[c]) => calls[c].output \in Seq(Range(calls[c].unique))

\* liveSearch("b", {category: 'Spor'}) has thrown
C2_Witness ==
    \E c \in LiveSearches : Threw(calls[c]) /\ Len(calls[c].keyword) = 1 /\ calls[c].keyword # Null

\* the calls that fetch the registry and have passed their argument check
Fetching == {c \in CallIds : calls[c].feeds # <<>>}

\* no call that fetches feeds has thrown
C3_NoThrow == \A c \in Fetching : ~Threw(calls[c])

\* a settled fetch whose parseURL failed holds no items
C3_FailedIsEmpty ==
    \A c \in CallIds : \A j \in 1..Len(calls[c].promises) :
        (calls[c].promises[j].state # "pending" /\ ~calls[c].promises[j].ok)
            => calls[c].promises[j].state = "fulfilled" /\ calls[c].promises[j].results = <<>>

\* when a chunk is handed back the call goes on, and what it adds to allResults
\* is, feed by feed, every item a feed that was parsed holds for the keyword,
\* and nothing for a feed that failed
C3_OthersKept ==
    \A c \in CallIds :
        Completes(c) =>
            /\ ~Threw(calls'[c])
            /\ \A j \in 1..Len(calls[c].promises) :
                LET p == calls[c].promises[j]
                    from == {k \in 1..Len(Added(c)) : Added(c)[k].feedKey = p.key}
                    keyword == IF calls[c].kind = "scrapeAllStaggered" THEN Null
                               ELSE calls[c].keyword
                    held == {i \in 1..Len(FeedItems(p.key)) :
                                KeepsItem(calls[c].this, FeedItems(p.key)[i], keyword)}
                IN  Cardinality(from) = IF p.ok THEN Cardinality(held) ELSE 0
            /\ (calls[c].kind = "scrapeByCategory" /\ Returned(calls'[c])
                    /\ Len(calls'[c].allResults) <= calls[c].limit)
                => Len(calls'[c].output) = Len(calls'[c].allResults)

\* three sources, two of them with one matching item each and one that fails,
\* no search-engine channel: liveSearch returns exactly two items
C3_Example ==
    \A c \in LiveSearches :
        LET s == calls[c]
            n == Len(s.promises)
        IN  (/\ Completes(c)
             /\ ~s.includeGoogleNews
             /\ Len(s.feeds) = 3 /\ n = 3 /\ s.limit >= 2
             /\ Cardinality({j \in 1..n : ~s.promises[j].ok}) = 1
             /\ Cardinality({j \in 1..n : s.promises[j].ok /\ Len(s.promises[j].results) = 1}) = 2
             /\ Cardinality({s.promises[j].results[1].url :
                                j \in {x \in 1..n : s.promises[x].ok}} \ {NullUrl}) = 2)
            => Returned(calls'[c]) /\ Len(calls'[c].output) = 2

\* C3: when the fetch or the parse of a feed fails, liveSearch,
\* scrapeByCategory and the fetching of scrapeAll do not throw, the failed feed
\* adds no item and the items of the other feeds are accumulated; with three
\* sources of which one fails and two hold one matching item each, and without
\* the search-engine channel, liveSearch returns exactly two items.
C3_FeedFailureIsolated ==
    /\ [](C3_NoThrow /\ C3_FailedIsEmpty)
    /\ [][C3_OthersKept /\ C3_Example]_vars

\* liveSearch('petrol', {category: 'Spor', includeGoogleNews: false}) has
\* returned two items from three sources, each of which holds one
C3_Witness ==
    \E c \in LiveSearches :
        /\ Returned(calls[c])
        /\ calls[c].keyword = PetrolKeyword /\ calls[c].category = "Spor"
        /\ ~calls[c].includeGoogleNews /\ calls[c].limit >= 2
        /\ Len(calls[c].feeds) = 3
        /\ \A j \in 1..3 : Cardinality(KeptOf[calls[c].this][calls[c].feeds[j]][PetrolKeyword]) = 1
        /\ Len(calls[c].allResults) = 2
        /\ Len(calls[c].output) = 2

\* the calls of liveSearch and scrapeByCategory
Batched == {c \in CallIds : calls[c].kind \in {"liveSearch", "scrapeByCategory"}}

\* at most five fetches of a call are in flight
C8_AtMostFive == \A c \in Batched : Cardinality(InFlight(calls[c])) <= 5

\* a chunk is issued when no fetch of the call is in flight; it is the next
\* five feeds, or the feeds that are left, in the order of the list
C8_OneBatchAtATime ==
    \A c \in CallIds :
        (Issues(c) /\ calls'[c].kind \in {"liveSearch", "scrapeByCategory"}) =>
            LET t == calls'[c]
                n == Len(t.promises)
            IN  /\ \A j \in 1..Len(calls[c].promises) : calls[c].promises[j].state # "pending"
                /\ t.i % 5 = 0
                /\ calls[c].pc = "await" => t.i = calls[c].i + 5
                /\ n >= 1 /\ n <= 5
                /\ n = IF Len(t.feeds) - t.i < 5 THEN Len(t.feeds) - t.i ELSE 5
                /\ \A j \in 1..n : t.promises[j].key = t.feeds[t.i + j]
                                    /\ t.promises[j].state = "pending"

\* C8: liveSearch and scrapeByCategory fetch the registry feeds in consecutive
\* batches of at most 5; the fetches of a batch are issued only after every
\* fetch of the batch before it has completed, so that a call never has more
\* than 5 registry fetches in flight.
C8_BatchesOfFive == []C8_AtMostFive /\ [][C8_OneBatchAtATime]_vars

\* the second batch of a call over six feeds is in flight, and the first batch
\* was a full one
C8_Witness ==
    \E c \in Batched :
        /\ calls[c].pc = "await"
        /\ Len(calls[c].feeds) = 6
        /\ calls[c].i = 5
        /\ InFlight(calls[c]) = {1}

\* C9 (break): a later batch of liveSearch is issued only if the items
\* accumulated after the batch before it are fewer than limit
C9_NoBatchAfterLimit ==
    \A c \in LiveSearches :
        (calls[c].pc = "await" /\ calls[c].i > 0) => Len(calls[c].allResults) < calls[c].limit

\* once the loop is left it is not entered again
C9_LoopLeft ==
    \A c \in LiveSearches : calls[c].pc \in {"google", "done", "threw"} => calls'[c].pc # "await"

\* a batch is handed back only when all its fetches are settled, and all the
\* items of all its fetches are accumulated, however many
C9_BatchInFull ==
    \A c \in LiveSearches :
        Completes(c) =>
            /\ \A j \in 1..Len(calls[c].promises) : calls[c].promises[j].state = "fulfilled"
            /\ Len(Added(c)) = Len(Flat([j \in 1..Len(calls[c].promises) |->
                                            calls[c].promises[j].results]))
            /\ \A j \in 1..Len(calls[c].promises) :
                    Range(calls[c].promises[j].results) \subseteq Range(Added(c))
            /\ (Len(calls'[c].allResults) >= calls[c].limit \/ calls[c].i + 5 >= Len(calls[c].feeds))
                    => calls'[c].pc # "await"

\* C9: once the items liveSearch has accumulated after a completed batch are
\* limit or more, no fetch of a later batch is ever issued; a batch that has
\* been started is awaited in full and all of its items are accumulated.
C9_EarlyExit == []C9_NoBatchAfterLimit /\ [][C9_LoopLeft /\ C9_BatchInFull]_vars

\* a search over six feeds has returned after its first batch, with more items
\* accumulated than its limit
C9_Witness ==
    \E c \in LiveSearches :
        /\ Returned(calls[c])
        /\ ~calls[c].includeGoogleNews
        /\ Len(calls[c].feeds) > 5
        /\ calls[c].i = 0
        /\ Len(calls[c].allResults) > calls[c].limit

\* C10: liveSearch returns at most limit items, and they are the first limit
\* entries of the scored, sorted and deduplicated list: no url is returned
\* twice, and as many items are returned as there are urls among the merged
\* items, up to limit.
C10_TruncatedAfterDedup ==
    \A c \in LiveSearches :
        Returned(calls[c]) =>
            LET s == calls[c]
                n == IF Len(s.unique) < s.limit THEN Len(s.unique) ELSE s.limit
                urls == UrlsOf(s.allResults)
            IN  /\ Len(s.output) <= s.limit
                /\ Len(s.output) = n
                /\ \A i \in 1..n : s.output[i] = s.unique[i]
                /\ \A i, j \in 1..Len(s.output) : s.output[i].url = s.output[j].url => i = j
                /\ Len(s.output) = IF Cardinality(urls) < s.limit THEN Cardinality(urls)
                                   ELSE s.limit
                /\ \A i \in 1..(Len(s.unique) - 1) :
                        s.unique[i].relevanceScore >= s.unique[i + 1].relevanceScore

\* a search has returned limit items although two of the limit best-scored
\* merged items share a url
C10_Witness ==
    \E c \in LiveSearches :
        /\ Returned(calls[c])
        /\ Len(calls[c].output) = calls[c].limit
        /\ LET sorted == SortByScore(Scored(calls[c].allResults, calls[c].keyword, now))
           IN  \E a, b \in 1..calls[c].limit : a # b /\ sorted[a].url = sorted[b].url

\* the first place of an item in a list
FirstIndex(items, x) ==
    CHOOSE k \in 1..Len(items) : items[k] = x /\ \A j \in 1..(k - 1) : items[j] # x

\* C11: the list liveSearch returns is ordered by non-increasing
\* relevanceScore, and two returned items of equal score stand in the order in
\* which they were accumulated: feed batches in order, then the items of the
\* search-engine channel.
C11_SortedAndStable ==
    \A c \in LiveSearches :
        Returned(calls[c]) =>
            LET s == calls[c]
                scored == Scored(s.allResults, s.keyword, now)
                fromGoogle(x) == x.feedKey = "google_news"
            IN  /\ Range(s.output) \subseteq Range(scored)
                /\ \A p, q \in 1..Len(s.output) :
                        p < q =>
                            /\ s.output[p].relevanceScore >= s.output[q].relevanceScore
                            /\ s.output[p].relevanceScore = s.output[q].relevanceScore
                                => /\ FirstIndex(scored, s.output[p]) < FirstIndex(scored, s.output[q])
                                   /\ fromGoogle(s.output[p]) => fromGoogle(s.output[q])

\* a search has returned two items of equal score, and two of different scores
\* that were accumulated in the other order
C11_Witness ==
    \E c \in LiveSearches :
        /\ Returned(calls[c])
        /\ LET out == calls[c].output
               scored == Scored(calls[c].allResults, calls[c].keyword, now)
           IN  /\ \E p, q \in 1..Len(out) :
                    p < q /\ out[p].relevanceScore = out[q].relevanceScore
               /\ \E p, q \in 1..Len(out) :
                    p < q /\ FirstIndex(scored, out[p]) > FirstIndex(scored, out[q])

\* the urls that start with http:// or https:// and name a host
IsAbsoluteHttp(url) ==
    url.origin \in {rssFeeds[i].url.origin : i \in 1..Len(rssFeeds)} \cup {GoogleOrigin}

\* the lists the calls have returned: the values of the settled promises of
\* scrapeFromFeed and of searchGoogleNews, and the values of the calls
ReturnedLists ==
    UNION {{calls[c].promises[j].results : j \in 1..Len(calls[c].promises)} : c \in CallIds}
    \cup {calls[c].google.results : c \in {x \in CallIds : calls[x].google.state = "fulfilled"}}
    \cup {calls[c].output : c \in {x \in CallIds : Returned(calls[x])}}

\* C13: every item of a list that scrapeFromFeed, scrapeByCategory, liveSearch,
\* scrapeAllStaggered or searchGoogleNews returns has an absolute http(s) url;
\* no entry without a link, or with a link that cannot be resolved, is in any
\* of these lists.
C13_AsClaimed ==
    \A list \in ReturnedLists : \A i \in 1..Len(list) : IsAbsoluteHttp(list[i].url)

\* C14: the list liveSearch, scrapeByCategory or scrapeAllStaggered returns
\* never holds two items with the same url, also when two feeds of one
\* category carry the same article.
C14_AsClaimed ==
    \A c \in CallIds :
        Returned(calls[c]) =>
            \A i, j \in 1..Len(calls[c].output) :
                (calls[c].output[i].url = calls[c].output[j].url
                    /\ calls[c].output[i].url # NullUrl) => i = j

\* the bonus for an age in minutes: 20 below 1 hour, 10 from 1 hour to below
\* 6 hours, 5 from 6 hours to below 24 hours, 0 from 24 hours on
RecencyBonus(age) ==
    CASE age < 60 -> 20
      [] age >= 60 /\ age < 360 -> 10
      [] age >= 360 /\ age < 1440 -> 5
      [] age >= 1440 -> 0

\* the score of an item without the bonus of the channel
ScoreOfText(item, keyword, t) ==
    10 * countKeywordOccurrences(item.title, keyword)
    + 2 * countKeywordOccurrences(item.description, keyword)
    + RecencyBonus(t - item.publishedAt)

\* C15: the relevanceScore liveSearch gives an item includes the bonus of 5
\* exactly if the item comes from searchGoogleNews, whatever its category.
C15_AsClaimed ==
    \A c \in LiveSearches :
        Returned(calls[c]) =>
            \A i \in 1..Len(calls[c].unique) :
                LET item == calls[c].unique[i]
                IN  item.relevanceScore =
                        ScoreOfText(item, calls[c].keyword, now)
                        + (IF item.feedKey = "google_news" THEN 5 ELSE 0)

\* C15 for the class of src/scrapers/sites/RSSNewsScraper.js alone
C15_OfSites ==
    \A c \in LiveSearches :
        (Returned(calls[c]) /\ calls[c].this = "sites") =>
            \A i \in 1..Len(calls[c].unique) :
                LET item == calls[c].unique[i]
                IN  item.relevanceScore =
                        ScoreOfText(item, calls[c].keyword, now)
                        + (IF item.feedKey = "google_news" THEN 5 ELSE 0)

\* C17: scrapeAllStaggered fetches every source of the registry once, one
\* after the other in the order of the registry, and calls the progress
\* callback once after each source with total the number of sources and
\* current 1, 2, ..., total in this order, never more than total, also when a
\* feed fails or the callback throws.
C17_AsClaimed ==
    \A c \in CallIds :
        calls[c].kind = "scrapeAllStaggered" =>
            LET s == calls[c]
            IN  /\ s.feeds = [k \in 1..Len(rssFeeds) |-> rssFeeds[k].key]
                /\ Len(s.promises) <= 1
                /\ \A j \in 1..Len(s.promises) : s.promises[j].key = s.feeds[s.i + 1]
                /\ Returned(s) => s.i = Len(rssFeeds)
                /\ s.callback # "none" =>
                    /\ Len(s.progress) = s.i
                    /\ \A k \in 1..Len(s.progress) :
                        /\ s.progress[k].feedKey = rssFeeds[k].key
                        /\ s.progress[k].total = Len(rssFeeds)
                        /\ s.progress[k].current = k
                        /\ s.progress[k].current <= s.progress[k].total

\* C17 for a callback that returns
C17_OfReturningCallback ==
    \A c \in CallIds :
        (calls[c].kind = "scrapeAllStaggered" /\ calls[c].callback = "returns") =>
            LET s == calls[c]
            IN  /\ s.feeds = [k \in 1..Len(rssFeeds) |-> rssFeeds[k].key]
                /\ Len(s.promises) <= 1
                /\ \A j \in 1..Len(s.promises) : s.promises[j].key = s.feeds[s.i + 1]
                /\ Returned(s) => s.i = Len(rssFeeds)
                /\ Len(s.progress) = s.i
                /\ \A k \in 1..Len(s.progress) :
                    /\ s.progress[k].feedKey = rssFeeds[k].key
                    /\ s.progress[k].total = Len(rssFeeds)
                    /\ s.progress[k].current = k

\* the sources of a search are different sources, maxSources at most, all of
\* the category if one is given, and the fetches in flight are those of the
\* feeds from place i on
C18_SampleBounded ==
    \A c \in LiveSearches :
        LET s == calls[c]
        IN  /\ IsInjective(s.feeds)
            /\ Range(s.feeds) \subseteq FeedKeys
            /\ Len(s.feeds) <= s.maxSources
            /\ s.category # NoCategory =>
                    \A k \in 1..Len(s.feeds) : FeedInfo(s.feeds[k]).category = s.category
            /\ \A j \in 1..Len(s.promises) :
                    s.i + j <= Len(s.feeds) /\ s.promises[j].key = s.feeds[s.i + j]

\* a later chunk starts behind the last feed of the chunk before it, and the
\* sample is drawn once
C18_NoSourceTwice ==
    \A c \in LiveSearches :
        /\ (Issues(c) /\ calls[c].pc = "await") =>
                /\ calls'[c].i >= calls[c].i + Len(calls[c].promises)
                /\ calls'[c].feeds = calls[c].feeds
        /\ (Issues(c) /\ calls[c].pc # "await") => calls[c].pc = "idle" /\ calls'[c].i = 0

\* C18: one call of liveSearch issues fetches to maxSources registry sources
\* at most, to no source twice, and with a category to sources of this
\* category only.
C18_AtMostMaxSources == []C18_SampleBounded /\ [][C18_NoSourceTwice]_vars

\* a search without category and with a maxSources below the size of the
\* registry has returned after fetching maxSources feeds
C18_Witness ==
    \E c \in LiveSearches :
        /\ Returned(calls[c])
        /\ calls[c].category = NoCategory
        /\ calls[c].maxSources < Len(rssFeeds)
        /\ Len(calls[c].feeds) = calls[c].maxSources
        /\ \E a, b \in Range(calls[c].feeds) : FeedInfo(a).category # FeedInfo(b).category

\* the liveSearch calls whose channel has ended with every request failed
ChannelFailed ==
    {c \in LiveSearches :
        /\ calls[c].includeGoogleNews
        /\ calls[c].google.state = "fulfilled"
        /\ Len(searchTerms(calls[c].keyword)) > 0
        /\ calls[c].google.errors = Len(searchTerms(calls[c].keyword))}

\* C19: a liveSearch whose search-engine requests have all failed does not
\* raise, and when it leaves its await of the channel it returns the list that
\* the same call without the channel returns from the end of the same loop:
\* the same sample, the same feed responses, scored at the same reading of the
\* clock.
C19_FailedChannelAsDisabled ==
    [][\A c \in ChannelFailed :
            /\ ~Threw(calls'[c])
            /\ calls[c].pc = "google" /\ calls'[c].pc # "google" =>
                    LET disabled == AfterLoop([calls[c] EXCEPT !.google = NoGoogle], now)
                    IN  /\ Returned(calls'[c])
                        /\ calls'[c].output = disabled.output]_vars

\* a search of the economy feeds has returned items although each of the two
\* requests of its channel failed
C19_Witness ==
    \E c \in ChannelFailed :
        /\ Returned(calls[c])
        /\ calls[c].google.errors >= 2
        /\ calls[c].google.results = <<>>
        /\ Len(calls[c].output) >= 2

\* C26: liveSearch and liveCategory of the service never raise: an error of the
\* scraper, the error for a keyword shorter than 2 characters included, comes
\* back as {success: false, news: [], count: 0, error}, and on success count is
\* the length of news, the list the scraper returned.
C26_NeverRaises ==
    probe.op \in {"liveSearch", "liveCategory"} =>
        LET s == calls[probe.call]
            r == probe.value
        IN  /\ ~r.raised
            /\ Threw(s) => ~r.success /\ r.news = <<>> /\ r.count = 0 /\ r.error # ""
            /\ Returned(s) => r.success /\ r.news = s.output /\ r.count = Len(r.news)

\* liveSearch of the service has returned the error of a keyword of one
\* character
C26_Witness ==
    /\ probe.op = "liveSearch"
    /\ Threw(calls[probe.call]) /\ Len(calls[probe.call].keyword) = 1
    /\ ~probe.value.success /\ probe.value.count = 0

\* both methods have returned lists that are not empty
C26_Success ==
    /\ probe.op \in {"liveSearch", "liveCategory"}
    /\ probe.value.success /\ probe.value.count >= 2

(***************************************************************************)
(* Properties of two concurrent calls, checked under SpecConcurrent        *)
(***************************************************************************)
\* a step of one call leaves the record of the other call as it is
C20_OwnStep == \A c \in CallIds : calls'[c] # calls[c] => calls'[3 - c] = calls[3 - c]

\* a step of a call adds to the accumulator of the call what the call itself
\* awaited (the results of its batch, of its feed, of its channel) and nothing
\* else
C20_OwnAccumulator ==
    \A c \in CallIds :
        calls'[c] # calls[c] =>
            LET s == calls[c]
                rejected == \E j \in 1..Len(s.promises) : s.promises[j].state = "rejected"
            IN  IF s.pc = "await" /\ calls'[c].promises # s.promises /\ AllSettled(s) /\ ~rejected
                THEN IF s.kind = "scrapeAllStaggered"
                     THEN calls'[c].allResults = s.allResults \o s.promises[1].results
                     ELSE \E flat \in ChunkResults(s) :
                            calls'[c].allResults = s.allResults \o flat
                ELSE IF s.pc = "google" /\ calls'[c].pc # "google"
                THEN calls'[c].allResults = s.allResults \o s.google.results
                ELSE calls'[c].allResults = s.allResults

\* the list a call has returned is made of the accumulator of the call alone,
\* and each of its items comes from a feed of the call's sample or from the
\* call's channel
C20_OwnOutput ==
    \A c \in CallIds :
        LET s == calls[c]
        IN  /\ \A k \in 1..Len(s.allResults) :
                    \/ s.allResults[k].feedKey \in Range(s.feeds)
                    \/ s.allResults[k].feedKey = "google_news" /\ s.includeGoogleNews
            /\ Returned(s) =>
                    s.output = IF s.kind = "liveSearch"
                               THEN liveSearchReturn(s.allResults, s.keyword, s.limit, now)
                               ELSE IF s.kind = "scrapeByCategory"
                               THEN slice(SortByDate(s.allResults), 0, s.limit)
                               ELSE UniqueByUrl(s.allResults)

\* C20: the accumulator and the seen-URL set of an aggregation call are local
\* to the call: with another liveSearch, scrapeByCategory or scrapeAllStaggered
\* running beside it, in any interleaving, a step of one call never changes the
\* other, a call accumulates its own results only, and the list it returns is
\* computed from its own accumulator.
C20_CallsAreLocal == [][C20_OwnStep /\ C20_OwnAccumulator]_vars /\ []C20_OwnOutput

\* both calls are under way with different results accumulated: the search
\* awaits its channel while the other call is between two of its feeds
C20_Witness ==
    /\ calls[1].pc = "google" /\ calls[1].allResults # <<>>
    /\ calls[2].pc \in {"await", "sleep"} /\ calls[2].allResults # <<>>
    /\ calls[1].allResults # calls[2].allResults

\* both calls have returned, each its own list
C20_BothReturned ==
    /\ Returned(calls[1]) /\ Returned(calls[2])
    /\ calls[1].output # <<>> /\ calls[2].output # <<>>
    /\ calls[1].output # calls[2].output

(***************************************************************************)
(* Properties of single applications, checked under SpecPure               *)
(***************************************************************************)
\* item.title || '' of an entry
TitleOf(entry) == OrElse(entry.title, <<>>)

\* item.contentSnippet || item.content || item.summary || '' of an entry
DescriptionOf(entry) ==
    OrElse(OrElse(OrElse(entry.contentSnippet, entry.content), entry.summary), <<>>)

\* C12: scrapeFromFeed returns, in the order of the feed, one item for every
\* entry of a parsed feed that passes isValidNews and, when a keyword is given
\* (a keyword that is not empty), has a title that matchesKeyword or a
\* description in which countKeywordOccurrences finds the keyword twice or
\* more, and no other item.
C12_KeywordFilter ==
    (probe.op = "scrapeFromFeed" /\ probe.parsed.ok) =>
        LET entries == probe.parsed.items
            given == probe.keyword # Null /\ probe.keyword # <<>>
            passes == {i \in 1..Len(entries) :
                        /\ isValidNews(probe.this, entries[i])
                        /\ given =>
                            \/ matchesKeyword(TitleOf(entries[i]), probe.keyword)
                            \/ countKeywordOccurrences(DescriptionOf(entries[i]),
                                                       probe.keyword) >= 2}
            expected == FilterIdx(entries, passes, 1)
            results == probe.value.results
        IN  /\ ~probe.value.rejected
            /\ Len(results) = Len(expected)
            /\ \A i \in 1..Len(results) :
                /\ results[i].title = trim(TitleOf(expected[i]))
                /\ results[i].description = trim(DescriptionOf(expected[i]))
                /\ results[i].url = fixUrl(expected[i].link, FeedInfo(probe.feedKey).url)

\* scrapeFromFeed with the keyword petrol has returned the second of two
\* entries only: its title does not match, its description names the keyword
\* twice; the first is valid and names the keyword once
C12_Witness ==
    /\ probe.op = "scrapeFromFeed" /\ probe.parsed.ok
    /\ probe.keyword = PetrolKeyword
    /\ Len(probe.parsed.items) = 2
    /\ isValidNews(probe.this, probe.parsed.items[1])
    /\ ~matchesKeyword(TitleOf(probe.parsed.items[1]), PetrolKeyword)
    /\ countKeywordOccurrences(DescriptionOf(probe.parsed.items[1]), PetrolKeyword) = 1
    /\ Len(probe.value.results) = 1
    /\ probe.value.results[1].title = TitlePiyasalar
    /\ ~matchesKeyword(probe.value.results[1].title, PetrolKeyword)
    /\ countKeywordOccurrences(probe.value.results[1].description, PetrolKeyword) >= 2

\* C16: the relevanceScore of an item, less the 5 of the channel where they
\* were added, is 10 for every occurrence of the keyword in the title, 2 for
\* every occurrence in the description, and for the age at the time of scoring
\* 20 below 1 hour, 10 from 1 hour to below 6 hours, 5 from 6 hours to below
\* 24 hours and 0 from 24 hours on.
C16_ScoreFormula ==
    probe.op = "relevanceScore" =>
        LET age == probe.at - probe.item.publishedAt
            channelBonus == IF probe.item.category = "Google News" THEN 5 ELSE 0
            recencyBonus == IF age < 60 THEN 20
                            ELSE IF 60 <= age /\ age < 360 THEN 10
                            ELSE IF 360 <= age /\ age < 1440 THEN 5
                            ELSE 0
        IN  /\ age < 60 \/ (60 <= age /\ age < 360) \/ (360 <= age /\ age < 1440) \/ age >= 1440
            /\ probe.value - channelBonus =
                    10 * countKeywordOccurrences(probe.item.title, probe.keyword)
                    + 2 * countKeywordOccurrences(probe.item.description, probe.keyword)
                    + recencyBonus

\* an item that is exactly one hour old, with the keyword once in its title
\* and twice in its description, has got 10 + 4 + 10
C16_Witness ==
    /\ probe.op = "relevanceScore"
    /\ probe.at - probe.item.publishedAt = 60
    /\ probe.item.category # "Google News"
    /\ countKeywordOccurrences(probe.item.title, probe.keyword) = 1
    /\ countKeywordOccurrences(probe.item.description, probe.keyword) = 2
    /\ probe.value = 24

\* the phrases of the boilerplate list that the inputs use
BoilerplatePhrases ==
    { <<"a","l","l"," ","r","i","g","h","t","s"," ","r","e","s","e","r","v","e","d">>,
      <<"c","o","p","y","r","i","g","h","t">>,
      <<"a","n","a"," ","s","a","y","f","a">>,
      <<"s","o","s","y","a","l"," ","m","e","d","y","a">>,
      <<"r","e","a","d"," ","m","o","r","e">> }

\* the lower-cased title of the item holds a boilerplate phrase
BoilerplateTitle(item) ==
    \E p \in BoilerplatePhrases : includes(normalizeText(OrElse(item.title, <<>>)), p)

\* the description of the item holds a boilerplate phrase and no spam word
BoilerplateDescription(item) ==
    LET content == normalizeText(OrElse(OrElse(item.contentSnippet, item.content), <<>>))
    IN  /\ \E p \in BoilerplatePhrases : includes(content, p)
        /\ \A k \in 1..Len(spamKeywords) : ~includes(content, spamKeywords[k])

\* C21, as it is stated, of both classes: isValidNews is false for every item
\* whose title holds a phrase of the boilerplate list, and a phrase of the list
\* in the description alone does not reject an item whose title is accepted
\* without it.
C21_AsClaimed ==
    probe.op = "isValidNews" =>
        /\ BoilerplateTitle(probe.item) => ~probe.value
        /\ (BoilerplateDescription(probe.item) /\ ~BoilerplateTitle(probe.item)) =>
                probe.value = isValidNews(probe.this, [probe.item EXCEPT
                                            !.contentSnippet = Null, !.content = Null])

\* the same of the class of routes/index.js alone, which holds
C21_OfRoutes == (probe.op = "isValidNews" /\ probe.this = "routes") => C21_AsClaimed

\* the class of routes/index.js has rejected a title for a boilerplate phrase
\* that the other class accepts, and has accepted a title whose description
\* alone holds such a phrase
C21_RoutesRejects ==
    /\ probe.op = "isValidNews" /\ probe.this = "routes"
    /\ BoilerplateTitle(probe.item) /\ ~probe.value
    /\ isValidNews("sites", probe.item)

C21_RoutesAccepts ==
    /\ probe.op = "isValidNews" /\ probe.this = "routes"
    /\ BoilerplateDescription(probe.item) /\ ~BoilerplateTitle(probe.item) /\ probe.value

\* C22, as it is stated: every category has 3 points for each of its words
\* found in the title and 1 point for each word found in the description only;
\* detectCategory returns Genel exactly when the highest score is below 2, and
\* otherwise the first category, in the order of the dictionary, of the highest
\* score.
C22_AsClaimed ==
    probe.op = "detectCategory" =>
        LET title == normalizeText(probe.title)
            description == normalizeText(probe.description)
            points(w) == IF includes(title, w) THEN 3
                         ELSE IF includes(description, w) THEN 1 ELSE 0
            RECURSIVE sum(_, _)
            sum(words, k) == IF k > Len(words) THEN 0 ELSE points(words[k]) + sum(words, k + 1)
            scores == [c \in 1..Len(categoryKeywords) |-> sum(categoryKeywords[c].keywords, 1)]
            highest == CHOOSE x \in Range(scores) : \A y \in Range(scores) : y <= x
            best == CHOOSE c \in 1..Len(scores) :
                        scores[c] = highest /\ \A j \in 1..(c - 1) : scores[j] # highest
        IN  /\ (probe.value = "Genel") = (highest < 2)
            /\ highest >= 2 => probe.value = categoryKeywords[best].category

\* a word of the dictionary stands across the join of title and description:
\* in the text title + ' ' + description, in neither of the two
SpansTheJoin(title, description) ==
    \E c \in 1..Len(categoryKeywords) : \E k \in 1..Len(categoryKeywords[c].keywords) :
        LET w == categoryKeywords[c].keywords[k]
        IN  /\ includes(normalizeText(title \o <<" ">> \o description), w)
            /\ ~includes(normalizeText(title), w)
            /\ ~includes(normalizeText(description), w)

\* the same of the texts in which no word of the dictionary stands across the
\* join, which holds
C22_WithinTheFields ==
    (probe.op = "detectCategory" /\ ~SpansTheJoin(probe.title, probe.description)) =>
        C22_AsClaimed

\* C23: matchesKeyword(text, keyword) is true exactly when a keyword is given
\* and the lower-cased text holds, with no letter, digit or underscore before
\* it and none after it, a synonym of the keyword followed by nothing or by one
\* of the thirteen suffixes.
C23_WholeWordWithSuffix ==
    probe.op = "matchesKeyword" =>
        LET text == normalizeText(probe.text)
            endings == { <<>>, <<"i","n">>, <<"u","n">>, <<"a">>, <<"e">>, <<"i">>, <<"d","a">>, <<"d","e">>, <<"d","a","n">>, <<"d","e","n">>, <<"l","a">>, <<"l","e">>, <<"l","a","r">>, <<"l","e","r">> }
            wholeWord(w) ==
                \E s \in 1..(Len(text) - Len(w) + 1) :
                    /\ SubSeq(text, s, s + Len(w) - 1) = w
                    /\ s = 1 \/ text[s - 1] \notin WordChars
                    /\ s + Len(w) - 1 = Len(text) \/ text[s + Len(w)] \notin WordChars
            syns == Range(getSynonyms(probe.keyword))
        IN  probe.value =
                /\ ~Falsy(probe.keyword)
                /\ \E syn \in syns, e \in endings : wholeWord(syn \o e)

\* the two texts of the example with the keyword dolar, and a text that holds
\* the keyword inside a longer word
C23_Witness ==
    /\ probe.op = "matchesKeyword"
    /\ probe.keyword = <<"d","o","l","a","r">>
    /\ probe.text = <<"D","o","l","a","r","i","n"," ","y","u","k","s","e","l","i","s","i"," ","d","u","r","m","u","y","o","r">>
    /\ probe.value

C23_NoMatch ==
    /\ probe.op = "matchesKeyword"
    /\ probe.keyword = <<"d","o","l","a","r">>
    /\ probe.text \in {<<"E","u","r","o"," ","y","u","k","s","e","l","d","i">>,
                       <<"d","o","l","a","r","c","i"," ","g","e","l","d","i">>}
    /\ ~probe.value

(***************************************************************************)
(* Properties of the scraping service, checked under SpecService and       *)
(* SpecServiceFair                                                         *)
(***************************************************************************)
\* the callers whose call is between isRunning = true and its finally block
InTry == {c \in SaverIds : service.run[c].pc \in {"fetch", "save"}}

\* at most one call is in its try block, and isRunning tells whether one is
C24_AtMostOne ==
    /\ Cardinality(InTry) <= 1
    /\ service.isRunning = (InTry # {})

\* a call made while isRunning is true returns success false with the message
\* at once: it awaits no fetch, and stats, isRunning, the savers and the store
\* are as they were
C24_RejectedAtOnce ==
    \A c \in SaverIds :
        (service.isRunning /\ service'.run[c].scrapes = service.run[c].scrapes + 1) =>
            /\ service'.run[c].pc = "done"
            /\ ~service'.run[c].results.success
            /\ service'.run[c].results.message = AlreadyRunningMessage
            /\ service'.stats = service.stats
            /\ service'.isRunning
            /\ savers' = savers /\ store' = store /\ nextId' = nextId

\* C24: on the one ScraperService, however the calls of scrapeAll and
\* scrapeWithKeyword of the API and of the cron job interleave, at most one
\* call is between isRunning = true and its finally block, and a call that
\* arrives while isRunning is true returns {success: false} without fetching,
\* writing to the store or changing stats.
C24_OneAtATime == []C24_AtMostOne /\ [][C24_RejectedAtOnce]_vars

\* a call has been rejected while the call of the other caller is saving
C24_Witness ==
    \E c \in SaverIds :
        /\ service.run[c].pc = "done"
        /\ service.run[c].results.message = AlreadyRunningMessage
        /\ service.run[3 - c].pc = "save"
        /\ service.run[3 - c].kind = "scrapeWithKeyword"
        /\ store # {}

\* C25: a call of scrapeAll or scrapeWithKeyword that has set isRunning sets it
\* back to false in the end, whether its fetch and its save complete or raise,
\* provided each of them returns or raises in the end.
C25_IsRunningReset == \A c \in SaverIds : (c \in InTry) ~> ~service.isRunning

\* a call whose fetch raised has returned success false, and isRunning is false
C25_Witness ==
    \E c \in SaverIds :
        /\ service.run[c].pc = "done"
        /\ ~service.run[c].results.success
        /\ service.run[c].results.errors # <<>>
        /\ service.run[c].kind = "scrapeAll"
        /\ ~service.isRunning

(***************************************************************************)
(* Properties of saveNews, checked under SpecTwice and SpecSave            *)
(***************************************************************************)
\* a document without the fields named
Without(d, scrapedAt, updatedAt) ==
    [d EXCEPT !.scrapedAt = IF scrapedAt THEN NoDate ELSE @,
              !.updatedAt = IF updatedAt THEN NoDate ELSE @]

\* the places of history at which a call is followed by a call with the same,
\* non-empty array
Repeats == {i \in 1..(Len(history) - 1) :
                history[i].newsArray = history[i + 1].newsArray /\ history[i].newsArray # <<>>}

\* the second of two calls with the same array inserts nothing and counts
\* every item a duplicate
SecondRunCounts(i) ==
    /\ history[i + 1].result.saved = 0
    /\ history[i + 1].result.duplicates = Len(history[i].newsArray)
    /\ history[i + 1].result.errors = <<>>
    /\ history[i].result.saved + history[i].result.duplicates = Len(history[i].newsArray)
    /\ history[i].result.saved =
            Cardinality({history[i].newsArray[k].url : k \in 1..Len(history[i].newsArray)}
                        \ {d.url : d \in IF i = 1 THEN {} ELSE history[i - 1].docs})

\* the claim as it is written: the documents are the same after both calls but
\* for scrapedAt
C4_AsClaimed ==
    \A i \in Repeats :
        /\ SecondRunCounts(i)
        /\ {Without(d, TRUE, FALSE) : d \in history[i].docs}
                = {Without(d, TRUE, FALSE) : d \in history[i + 1].docs}

\* C4 (amended): when saveNews is run twice on the same array of N items and
\* no upsert fails, items are counted as saved in the first run only, the
\* second run returns saved = 0 and duplicates = N, and every stored document
\* is the same after the first and after the second run in all fields but
\* scrapedAt and updatedAt.
C4_Idempotent ==
    \A i \in Repeats :
        /\ SecondRunCounts(i)
        /\ {Without(d, TRUE, TRUE) : d \in history[i].docs}
                = {Without(d, TRUE, TRUE) : d \in history[i + 1].docs}

\* saveNews has run twice on one array: the first run inserted, and the second
\* run, at a later time, left other documents than the first
C4_Witness ==
    \E i \in Repeats :
        /\ history[i].result.saved > 0
        /\ history[i + 1].result.duplicates = Len(history[i].newsArray)
        /\ history[i].docs # history[i + 1].docs

\* the step of p in which updateOne for the item k throws or returns
Answers(p) ==
    /\ savers[p].pc \in {"lookup", "write"}
    /\ savers'[p].k # savers[p].k \/ savers'[p].pc = "done"

Throws(p) == Answers(p) /\ Len(savers'[p].thrown) > Len(savers[p].thrown)

Applies(p) == Answers(p) /\ savers'[p].thrown = savers[p].thrown

\* the collection never holds two documents with one url
C5_OnePerUrl == \A d, e \in store : d.url = e.url => d = e

\* an upsert that throws E11000 adds one to duplicates and nothing to errors;
\* an upsert that returns or throws E11000 leaves exactly one document with
\* its url, and no step of a saver removes a document
C5_ConflictIsDuplicate ==
    \A p \in SaverIds :
        LET s == savers[p]
            t == savers'[p]
        IN  /\ (Throws(p) /\ t.thrown[Len(t.thrown)].error.code = 11000) =>
                /\ t.result.duplicates = s.result.duplicates + 1
                /\ t.result.errors = s.result.errors
                /\ t.result.saved = s.result.saved
                /\ Cardinality(Matching(store', s.newsArray[s.k].url)) = 1
            /\ Applies(p) => Cardinality(Matching(store', s.newsArray[s.k].url)) = 1
            /\ t # s => {d.url : d \in store} \subseteq {d.url : d \in store'}

\* C5: when two calls of saveNews upsert an item whose url is not stored, in
\* every interleaving the collection ends with exactly one document for the
\* url, and the call whose upsert throws E11000 counts the item as a duplicate
\* and adds nothing to its errors.
C5_RaceIsHarmless == []C5_OnePerUrl /\ [][C5_ConflictIsDuplicate]_vars

\* both calls have upserted the url of ItemA when it was not stored; the
\* upsert of one has thrown E11000, and there is one document
C5_Witness ==
    \E p, q \in SaverIds :
        /\ p # q
        /\ savers[p].pc = "done" /\ savers[q].pc = "done"
        /\ savers[p].newsArray = <<ItemA>> /\ savers[q].newsArray = <<ItemA>>
        /\ savers[p].thrown = << [url |-> UrlA, error |-> DuplicateKeyError] >>
        /\ savers[p].result = [saved |-> 0, duplicates |-> 1, errors |-> <<>>]
        /\ savers[q].result.saved = 1
        /\ Cardinality(Matching(store, UrlA)) = 1

\* the entries of errors that belong to the errors thrown
ErrorsOf(thrown) ==
    LET other == FilterIdx(thrown, {i \in 1..Len(thrown) : thrown[i].error.code # 11000}, 1)
    IN  [i \in 1..Len(other) |-> [url |-> other[i].url, error |-> other[i].error.message]]

\* C6: saveNews goes on to the next item whatever updateOne throws: at item k
\* it has counted k - 1 items, it returns after the last item with
\* saved + duplicates + length(errors) = N, and errors holds the url and the
\* message of every error thrown that is not E11000, in the order of the items.
C6_EveryItemCounted ==
    \A p \in SaverIds :
        LET s == savers[p]
            counted == s.result.saved + s.result.duplicates + Len(s.result.errors)
        IN  /\ s.pc \in {"lookup", "write"} =>
                /\ s.k \in 1..Len(s.newsArray)
                /\ counted = s.k - 1
            /\ s.pc = "done" => counted = Len(s.newsArray) /\ s.k = Len(s.newsArray)
            /\ s.result.errors = ErrorsOf(s.thrown)
            /\ Len(s.thrown) <= s.result.duplicates + Len(s.result.errors)

\* saveNews has returned for two items: the upsert of the first threw an
\* error, the second was inserted
C6_Witness ==
    \E p \in SaverIds :
        /\ savers[p].pc = "done"
        /\ Len(savers[p].newsArray) = 2
        /\ Len(savers[p].result.errors) = 1
        /\ savers[p].result.errors[1].url = savers[p].newsArray[1].url
        /\ savers[p].thrown[1].error \in OtherErrors
        /\ savers[p].result.saved = 1
        /\ Matching(store, savers[p].newsArray[2].url) # {}

\* C7: an upsert that meets a document with its url keeps the document's _id
\* and createdAt, writes the item's fields to it and sets isActive, whether the
\* document was active or not, and changes no other document; an upsert that
\* meets none adds one document, with createdAt the time of the call, and
\* changes no other.
C7_UpsertFrame ==
    \A p \in SaverIds :
        Applies(p) =>
            LET s == savers[p]
                item == s.newsArray[s.k]
                old == Matching(store, item.url)
                new == Matching(store', item.url)
            IN  /\ store' \ new = store \ old
                /\ Cardinality(new) = 1
                /\ \A e \in new :
                    /\ e.title = item.title /\ e.summary = item.summary
                    /\ e.imageUrl = item.imageUrl /\ e.category = item.category
                    /\ e.source = item.source /\ e.keywords = item.keywords
                    /\ e.publishedAt = item.publishedAt
                    /\ e.scrapedAt = IF item.scrapedAt = NoDate THEN s.at ELSE item.scrapedAt
                    /\ e.isActive
                    /\ \A d \in old : e.id = d.id /\ e.createdAt = d.createdAt
                    /\ old = {} => e.createdAt = s.at /\ e.id \notin {d.id : d \in store}

C7_CreatedAtOnInsertOnly == [][C7_UpsertFrame]_vars

\* an upsert has met a document that the cleanup had deactivated, with another
\* title and an earlier createdAt than the time of the upsert: the document is
\* active, has the new title and the createdAt it had
C7_Witness ==
    \E p \in SaverIds :
        /\ savers[p].pc = "done"
        /\ savers[p].found # NoDoc
        /\ ~savers[p].found.isActive
        /\ savers[p].found.createdAt < savers[p].at
        /\ \E d \in store :
            /\ d.id = savers[p].found.id
            /\ d.isActive
            /\ d.title # savers[p].found.title
            /\ d.createdAt = savers[p].found.createdAt
            /\ d.updatedAt = savers[p].at

(***************************************************************************)
(* Properties of MemoryCache                                               *)
(***************************************************************************)
CacheKeysOf(mc) == {mc.cache[i].key : i \in 1..Len(mc.cache)}

\* C27 as the specification states it: after any calls of set, get, has,
\* delete, deletePattern, cleanup and clear, with any keys, the cache holds at
\* most maxSize entries
C27_AsClaimed == Len(memoryCache.cache) <= maxSize

\* what holds of the code: the bound is kept while no entry has the empty
\* string as its key
C27_TruthyKeys ==
    (\A k \in CacheKeysOf(memoryCache) : ~Falsy(k)) => Len(memoryCache.cache) <= maxSize

\* the step is a call of get or of has
IsAccess == now' = now /\ probe'.op \in {"get", "has"}

\* C28: a get or a has of a key whose entry was set with ttl > 0 more than ttl
\* seconds before never returns the entry: has returns false, get returns null
\* and counts a miss, and the entry is removed, whether or not cleanup ran
C28_ExpiredIsGone ==
    [][IsAccess =>
        LET key == probe'.key
            at == Place(memoryCache.cache, key)
        IN  (at # 0 /\ memoryCache.cache[at].expiresAt # NoDate
                    /\ now > memoryCache.cache[at].expiresAt)
            => /\ key \notin CacheKeysOf(memoryCache')
               /\ (probe'.op = "has" => probe'.value = "false")
               /\ probe'.op = "get" =>
                    /\ probe'.value = NoValue
                    /\ memoryCache'.stats.misses = memoryCache.stats.misses + 1
                    /\ memoryCache'.stats.hits = memoryCache.stats.hits]_vars

\* a get found an entry past its expiry, returned null and removed it
C28_Witness ==
    /\ probe.op = "get"
    /\ probe.entry # <<>>
    /\ probe.entry[1].expiresAt # NoDate
    /\ now > probe.entry[1].expiresAt
    /\ probe.value = NoValue
    /\ probe.key \notin CacheKeysOf(memoryCache)
    /\ memoryCache.stats.misses > 0

\* a has found an entry past its expiry and returned false
C28_HasWitness ==
    /\ probe.op = "has"
    /\ probe.entry # <<>>
    /\ probe.value = "false"

\* an entry not yet past its expiry is returned
C28_StillThere ==
    /\ probe.op = "get"
    /\ probe.entry # <<>>
    /\ probe.entry[1].expiresAt = now
    /\ probe.value = "v"

\* the step is a call of set
IsSet == memoryCache'.stats.sets = memoryCache.stats.sets + 1

\* the keys a step removes
Removed == CacheKeysOf(memoryCache) \ CacheKeysOf(memoryCache')

\* the least recently accessed entries: those of the smallest accessedAt
LeastRecent ==
    {memoryCache.cache[i].key : i \in {j \in 1..Len(memoryCache.cache) :
        \A k \in 1..Len(memoryCache.cache) :
            memoryCache.cache[j].accessedAt <= memoryCache.cache[k].accessedAt}}

\* C29 as the specification states it: a set removes an entry only when its
\* key is new and the cache holds maxSize entries, the entry removed is then
\* the least recently accessed, and a set of a key already present removes no
\* other key
C29_AsClaimed ==
    [][IsSet =>
        /\ (Removed # {} =>
            /\ probe'.key \notin CacheKeysOf(memoryCache)
            /\ Len(memoryCache.cache) >= maxSize
            /\ Cardinality(Removed) = 1
            /\ Removed \subseteq LeastRecent)
        /\ (probe'.key \in CacheKeysOf(memoryCache) => Removed = {})]_vars

\* what holds of the code: a set removes at most one entry, only from a cache
\* of maxSize entries or more, and the entry is one of the least recently
\* accessed, whether the key that is set is new or not
C29_OfTheCode ==
    [][(IsSet /\ Removed # {}) =>
            /\ Len(memoryCache.cache) >= maxSize
            /\ Cardinality(Removed) = 1
            /\ Removed \subseteq LeastRecent]_vars

\* a set of a key already present removed another key
C29_OverwriteEvicted ==
    /\ probe.op = "set"
    /\ memoryCache.stats.evictions = 1
    /\ memoryCache.stats.sets = 3
    /\ memoryCache.stats.deletes = 0
    /\ Len(memoryCache.cache) = 1
    /\ now = T0

(***************************************************************************)
(* Properties of suspiciousActivityDetector                                *)
(***************************************************************************)
\* the IP has a record that is blocked
IsBlocked(d, ip) == ip \in DOMAIN d.suspiciousIPs /\ d.suspiciousIPs[ip].blocked

\* the step is the arrival of a request, the step is a response
IsRequest == now' = now /\ probe'.op = "request"

IsResponse ==
    /\ now' = now
    /\ probe'.op = "response"
    /\ detector'.pending[probe'.ip] = detector.pending[probe'.ip] - 1

\* a blocked IP was sent ten responses of a 4xx status or more
C30_BlockedAfterTen ==
    \A ip \in IPs : IsBlocked(detector, ip) => detector.sent[ip] >= 10

\* an IP becomes blocked in a response of a 4xx status to it
C30_BlockedByResponse ==
    \A ip \in IPs :
        (~IsBlocked(detector, ip) /\ IsBlocked(detector', ip)) =>
            /\ IsResponse
            /\ probe'.ip = ip
            /\ probe'.status \in 400..499

\* a request of a blocked IP less than 15 minutes after blockedAt is answered
\* 429 and passed to no later handler
C30_Rejected ==
    \A ip \in IPs :
        (/\ IsRequest
         /\ probe'.ip = ip
         /\ IsBlocked(detector, ip)
         /\ now - detector.suspiciousIPs[ip].blockedAt < 15 * 60 * 1000) =>
            /\ probe'.status = 429
            /\ detector' = detector

\* a request of a blocked IP 15 minutes after blockedAt or later deletes the
\* record and is passed on
C30_Released ==
    \A ip \in IPs :
        (/\ IsRequest
         /\ probe'.ip = ip
         /\ IsBlocked(detector, ip)
         /\ now - detector.suspiciousIPs[ip].blockedAt >= 15 * 60 * 1000) =>
            /\ probe'.status # 429
            /\ ip \notin DOMAIN detector'.suspiciousIPs
            /\ detector'.pending[ip] = detector.pending[ip] + 1

\* the count of an IP without a record starts again from zero: its next 4xx
\* response is counted as the first
C30_Restarts ==
    \A ip \in IPs :
        (/\ IsResponse
         /\ probe'.ip = ip
         /\ probe'.status \in 400..499
         /\ ip \notin DOMAIN detector.suspiciousIPs) =>
            /\ detector'.suspiciousIPs[ip].count = 1
            /\ ~IsBlocked(detector', ip)

\* C30: an IP becomes blocked only after ten 4xx responses or more were sent
\* to it; a request of a blocked IP less than 15 minutes after its blockedAt
\* is answered 429 and reaches no later handler; the first request after the
\* 15 minutes deletes the record and passes, and the count restarts from zero
C30_Detector ==
    /\ []C30_BlockedAfterTen
    /\ [][C30_BlockedByResponse /\ C30_Rejected /\ C30_Released /\ C30_Restarts]_vars

\* an IP was blocked after ten 4xx responses, was released by a request 15
\* minutes later, and its next 4xx response was counted as the first
C30_Witness ==
    \E ip \in IPs :
        /\ ip \in DOMAIN detector.suspiciousIPs
        /\ detector.suspiciousIPs[ip].count = 1
        /\ detector.sent[ip] = 11
        /\ probe.op = "response"

\* a request of a blocked IP was answered 429
C30_Answered429 ==
    /\ probe.op = "request"
    /\ probe.status = 429
    /\ IsBlocked(detector, probe.ip)
    /\ now > detector.suspiciousIPs[probe.ip].blockedAt

==========================================================================
